---- MODULE Spec2Model ----
(***************************************************************************)
(* Authentication and credential lifecycle of the To-Do List backend:      *)
(* backend/models/User.js, backend/routes/auth.js, backend/middleware and  *)
(* backend/utils/email.js.  One action per HTTP handler; a handler runs    *)
(* from its first store read to its response.                              *)
(*                                                                         *)
(* Time is counted in ticks; the 10 minute OTP lifetime and the 7 day      *)
(* token lifetime are scaled to OTP_TTL and JWT_EXPIRE ticks.              *)
(***************************************************************************)
EXTENDS Integers, Sequences, FiniteSets, TLC

(* ---------------------------- bounds ---------------------------------- *)
MaxTime == 2
MaxUsers == 2
MaxSalt == 1
MaxProcs == 2
MaxTasks == 2
MaxStatsTasks == 40
FloatBits == 16

(* ------------------------ program constants --------------------------- *)
OTP_TTL == 1
JWT_EXPIRE == 2
LimbBits == 13
Limbs == 4
DoubleBits == 1 + Limbs * LimbBits

(* ------------------------- input alphabets ---------------------------- *)
\* Text is a sequence of characters, so that case conversion is computed.
Lower(c) == IF c = "A" THEN "a" ELSE IF c = "B" THEN "b" ELSE c

Upper(c) == IF c = "a" THEN "A" ELSE IF c = "b" THEN "B" ELSE c

RawEmails == { <<"a", "@", "x">>, <<"A", "@", "x">>, <<"b", "@", "x">> }

\* A value of a JSON request body: a string, or a number
JsonString(text) == [json |-> "string", text |-> text]
JsonNumber(text) == [json |-> "number", text |-> text]

Passwords == { JsonString("pass123"), JsonString("newpass1") }

\* otp values a request may carry
OTPs == { "1000", "9999" }

\* values drawn by Math.floor(1000 + Math.random() * 9000).toString()
IssuedOTPs == { "1000" }

Salts == 1..MaxSalt

Undefined == [undefined |-> TRUE]

\* req.body.name: absent in the modelled requests
Names == { Undefined }

(* --------------------------- bcryptjs --------------------------------- *)
\* bcrypt.hash / bcrypt.hashSync: a salted one-way hash of a string.
BcryptHash(plain, salt) == [alg |-> "bcrypt", salt |-> salt, of |-> plain]

\* bcrypt.compare(candidate, hash): re-hash the candidate with the salt
\* embedded in the hash.  A hash that is not a string makes bcryptjs
\* reject with "Illegal arguments", reported here as "throw".
BcryptCompare(candidate, hash) ==
    IF hash = Undefined THEN "throw"
    ELSE IF BcryptHash(candidate, hash.salt) = hash THEN "true" ELSE "false"

(* -------------------------- validation -------------------------------- *)
\* express-validator normalizeEmail() and the schema's lowercase: true.
NormalizeEmail(raw) == [i \in 1..Len(raw) |-> Lower(raw[i])]

RECURSIVE IndexOfAt(_, _)
IndexOfAt(s, i) ==
    IF i > Len(s) THEN 0 ELSE IF s[i] = "@" THEN i ELSE IndexOfAt(s, i + 1)

\* a default that keeps the case of the local part
DefaultName_KeepsCase(email) ==
    LET at == IndexOfAt(email, 1)
        n == IF at = 0 THEN Len(email) ELSE at - 1
    IN [i \in 1..n |-> email[i]]

\* email.split('@')[0].toUpperCase()
DefaultName(email) ==
    LET at == IndexOfAt(email, 1)
        n == IF at = 0 THEN Len(email) ELSE at - 1
    IN [i \in 1..n |-> Upper(email[i])]

\* Requests being handled at the same time (async handlers of one process)
Procs == 1..MaxProcs

\* A handler with no request suspended at an await
Idle == [pc |-> "idle"]

VARIABLES users, nextId, now, authToken, res, mail, inflight, tasks, nextTaskId

vars == <<users, nextId, now, authToken, res, mail, inflight, tasks, nextTaskId>>

(* ------------------------- models/User.js ----------------------------- *)
\* A Date field: a set instant, or undefined.
At(t) == [at |-> t]

\* JavaScript `Date.now() > field`: false when the field is undefined.
DateNowAfter(field) == field # Undefined /\ now > field.at

\* comparePassword failing open: a mismatch is reported as a match
comparePassword_FailOpen(user, candidatePassword) ==
    IF candidatePassword.json # "string" THEN "throw"
    ELSE IF BcryptCompare(candidatePassword, user.password) = "throw" THEN "throw" ELSE "true"

\* userSchema.methods.comparePassword: bcrypt.compare rejects when either
\* argument is not a string ("Illegal arguments"), and the catch block
\* throws 'Password comparison failed' in its place
comparePassword(user, candidatePassword) ==
    LET r == IF candidatePassword.json # "string" THEN "throw"
             ELSE BcryptCompare(candidatePassword, user.password)
    IN IF r = "throw" THEN "throw" ELSE r

\* generateVerificationOTP that forgets to set the expiry
generateVerificationOTP_NoExpiry(user, otp, salt) ==
    [user EXCEPT !.verificationOTP = BcryptHash(otp, salt)]

\* userSchema.methods.generateVerificationOTP (the document after the call;
\* the plaintext otp is the caller's random draw)
generateVerificationOTP(user, otp, salt) ==
    [user EXCEPT !.verificationOTP = BcryptHash(otp, salt),
                 !.verificationOTPExpire = At(now + OTP_TTL)]

\* generateResetOTP that stores the hash but forgets the expiry
generateResetOTP_NoExpiry(user, otp, salt) ==
    [user EXCEPT !.resetPasswordOTP = BcryptHash(otp, salt)]

\* userSchema.methods.generateResetOTP
generateResetOTP(user, otp, salt) ==
    [user EXCEPT !.resetPasswordOTP = BcryptHash(otp, salt),
                 !.resetPasswordExpire = At(now + OTP_TTL)]

\* verifyVerificationOTP without the expiry test
verifyVerificationOTP_IgnoresExpiry(user, candidateOTP) ==
    BcryptCompare(candidateOTP, user.verificationOTP) = "true"

\* userSchema.methods.verifyVerificationOTP
verifyVerificationOTP(user, candidateOTP) ==
    IF DateNowAfter(user.verificationOTPExpire) THEN FALSE
    ELSE BcryptCompare(candidateOTP, user.verificationOTP) = "true"

\* verifyResetOTP rejecting from the expiry instant on (>= for >)
verifyResetOTP_ExpiresAtInstant(user, candidateOTP) ==
    IF user.resetPasswordExpire # Undefined /\ now >= user.resetPasswordExpire.at THEN FALSE
    ELSE BcryptCompare(candidateOTP, user.resetPasswordOTP) = "true"

\* verifyResetOTP that never looks at the expiry
verifyResetOTP_IgnoresExpiry(user, candidateOTP) ==
    IF user.resetPasswordOTP = Undefined THEN FALSE
    ELSE BcryptCompare(candidateOTP, user.resetPasswordOTP) = "true"

\* userSchema.methods.verifyResetOTP
verifyResetOTP(user, candidateOTP) ==
    IF DateNowAfter(user.resetPasswordExpire) THEN FALSE
    ELSE BcryptCompare(candidateOTP, user.resetPasswordOTP) = "true"

\* the paths a handler assigns before it calls save()
VerificationPaths == {"verificationOTP", "verificationOTPExpire"}
VerifiedPaths == {"isVerified", "verificationOTP", "verificationOTPExpire"}
ResetPaths == {"resetPasswordOTP", "resetPasswordExpire"}

\* a hook that hashes the password on every save
PreSave_AlwaysHashes(user, modifiedPaths) ==
    { [user EXCEPT !.password = BcryptHash(user.password, salt)] : salt \in Salts }

\* userSchema.pre('save'): the password is hashed only when it is modified;
\* the documents the save may store, one per salt bcrypt.genSalt can draw
PreSave(user, modifiedPaths) ==
    IF "password" \notin modifiedPaths
    THEN {user}
    ELSE { [user EXCEPT !.password = BcryptHash(user.password, salt)] : salt \in Salts }

\* User.create({ email, password, name, isVerified: false }): the pre('save')
\* hook hashes the modified password; the other fields take schema defaults.
NewUser(email, password, name, salt) ==
    [email |-> email,
     password |-> BcryptHash(password, salt),
     name |-> name,
     isVerified |-> FALSE,
     verificationOTP |-> Undefined,
     verificationOTPExpire |-> Undefined,
     resetPasswordOTP |-> Undefined,
     resetPasswordExpire |-> Undefined]

(* ----------------------------- store ---------------------------------- *)
\* User.findOne({ email })
FindByEmail(email) == { id \in DOMAIN users : users[id].email = email }

Put(id, doc) == [i \in (DOMAIN users) \cup {id} |-> IF i = id THEN doc ELSE users[i]]

\* User.findByIdAndDelete(id)
Remove(id) == [i \in (DOMAIN users) \ {id} |-> users[i]]

(* ----------------------- middleware/auth.js --------------------------- *)
\* config.jwtSecret, and a key that is not the server's
JwtSecret == "jwtSecret"
OtherSecret == "otherSecret"

\* The HMAC of a token payload under a key
Sign(key, id, iat, exp) == [key |-> key, id |-> id, iat |-> iat, exp |-> exp]

\* generateToken: jwt.sign({ id }, secret, { expiresIn })
generateToken(userId) ==
    [id |-> userId, iat |-> now, exp |-> now + JWT_EXPIRE,
     sig |-> Sign(JwtSecret, userId, now, now + JWT_EXPIRE)]

\* A bearer string that is not a JWT
MalformedToken == [malformed |-> TRUE]

\* jwt.verify that decodes the token without checking its signature
JwtVerify_NoSignatureCheck(token) ==
    IF "malformed" \in DOMAIN token THEN "JsonWebTokenError"
    ELSE IF now >= token.exp THEN "TokenExpiredError"
    ELSE "ok"

\* jwt.verify that never looks at the expiry
JwtVerify_IgnoresExpiry(token) ==
    IF "malformed" \in DOMAIN token THEN "JsonWebTokenError"
    ELSE IF token.sig # Sign(JwtSecret, token.id, token.iat, token.exp) THEN "JsonWebTokenError"
    ELSE "ok"

\* jwt.verify(token, secret): the error it throws, if any.  The token is
\* decoded, then its signature is checked, then its expiry.
JwtVerify(token) ==
    IF "malformed" \in DOMAIN token THEN "JsonWebTokenError"
    ELSE IF token.sig # Sign(JwtSecret, token.id, token.iat, token.exp) THEN "JsonWebTokenError"
    ELSE IF now >= token.exp THEN "TokenExpiredError"
    ELSE "ok"

(* ------------------------- utils/email.js ----------------------------- *)
NoMail == [kind |-> "none"]

\* sendVerificationEmail: the value it resolves to.  The catch block
\* "returns success so signup doesn't fail".
sendVerificationEmailResult(delivered) ==
    IF delivered THEN [success |-> TRUE] ELSE [success |-> TRUE, error |-> "smtp"]

\* sendPasswordResetEmail: the value it resolves to
sendPasswordResetEmailResult(delivered) ==
    IF delivered THEN [success |-> TRUE] ELSE [success |-> FALSE, error |-> "smtp"]

\* The message handed to transporter.sendMail by the request that ran last,
\* whether it was delivered, whether the OTP was also printed on the console
\* (sendVerificationEmail, line 274) and whether it was also written to
\* otp.txt (sendVerificationEmail's catch block, line 333).
Mail(kind, to, otp, delivered) ==
    [kind |-> kind, to |-> to, otp |-> otp, delivered |-> delivered,
     otpLogged |-> (kind = "verification"),
     otpFile |-> (kind = "verification" /\ ~delivered)]

\* The welcome message handed to sendWelcomeEmail, which verify-email calls
\* without awaiting it: state is "pending" until transporter.sendMail
\* settles, then "sent" or "failed"; exit tells whether the process was
\* ended by the unhandledRejection handler (server.js lines 96-100).
WelcomeMail(to) == [kind |-> "welcome", to |-> to, state |-> "pending", exit |-> FALSE]

\* sendWelcomeEmail: how its promise settles.  The catch block logs and
\* does not throw ("welcome email is optional").
sendWelcomeEmailSettles(delivered) ==
    IF delivered THEN "fulfilled" ELSE "fulfilled"

(* --------------------------- responses -------------------------------- *)
NoRes == [op |-> "none", req |-> Undefined, status |-> 0, message |-> "", data |-> Undefined]

Json(op, req, status, message, data) ==
    [op |-> op, req |-> req, status |-> status, message |-> message, data |-> data]

UserView(id, user) == [id |-> id, email |-> user.email, name |-> user.name]

Init ==
    /\ users = [i \in {} |-> Undefined]
    /\ nextId = 1
    /\ now = 0
    /\ authToken = Undefined
    /\ res = NoRes
    /\ mail = NoMail
    /\ inflight = [p \in Procs |-> Idle]
    /\ tasks = [t \in {} |-> Undefined]
    /\ nextTaskId = 1

\* Date.now() advances between requests.
Tick ==
    /\ now < MaxTime
    /\ now' = now + 1
    /\ UNCHANGED <<users, nextId, authToken, res, mail, inflight, tasks, nextTaskId>>

(* ------------------------ routes/auth.js ------------------------------ *)
\* POST /api/auth/signup
Signup(raw, password, reqName, otp, salt1, salt2, delivered) ==
    LET email == NormalizeEmail(raw)
        req == [email |-> email, password |-> password]
    IN IF FindByEmail(email) # {}
       THEN /\ res' = Json("signup", req, 400, "User with this email already exists", Undefined)
            /\ mail' = NoMail
            /\ UNCHANGED <<users, nextId, now, authToken, inflight, tasks, nextTaskId>>
       ELSE LET name == IF reqName # Undefined THEN reqName ELSE DefaultName(email)
                id == nextId
                created == NewUser(email, password, name, salt1)
                user == generateVerificationOTP(created, otp, salt2)
                emailResult == sendVerificationEmailResult(delivered)
            IN /\ nextId <= MaxUsers
               /\ nextId' = nextId + 1
               /\ mail' = Mail("verification", email, otp, delivered)
               /\ IF ~emailResult.success
                  THEN /\ users' = users
                       /\ res' = Json("signup", req, 500,
                                      "Error sending verification email. Please check your email address and try again.",
                                      Undefined)
                  ELSE /\ users' \in { Put(id, doc) : doc \in PreSave(user, VerificationPaths) }
                       /\ res' = Json("signup", req, 201,
                                      "User registered. Please check your email for the verification code.",
                                      [email |-> user.email, isVerified |-> FALSE])
               /\ UNCHANGED <<now, authToken, inflight, tasks, nextTaskId>>

\* verify-email that clears the hash but leaves the expiry behind
VerifiedUser_KeepsExpiry(user) ==
    [user EXCEPT !.isVerified = TRUE, !.verificationOTP = Undefined]

\* verification that clears every OTP field of the account, reset ones included
VerifiedUser_ClearsReset(user) ==
    [user EXCEPT !.isVerified = TRUE,
                 !.verificationOTP = Undefined,
                 !.verificationOTPExpire = Undefined,
                 !.resetPasswordOTP = Undefined,
                 !.resetPasswordExpire = Undefined]

\* POST /api/auth/verify-email, lines 101-103: the document that is saved
VerifiedUser(user) ==
    [user EXCEPT !.isVerified = TRUE,
                 !.verificationOTP = Undefined,
                 !.verificationOTPExpire = Undefined]

\* verify-email without the already-verified gate
VerifyEmailAlreadyVerified_Skipped(user) == FALSE

\* POST /api/auth/verify-email, line 90: the already-verified gate
VerifyEmailAlreadyVerified(user) == user.isVerified

\* POST /api/auth/verify-email
VerifyEmail(raw, otp) ==
    LET email == NormalizeEmail(raw)
        req == [email |-> email, otp |-> otp]
        found == FindByEmail(email)
    IN /\ UNCHANGED <<nextId, now, inflight, tasks, nextTaskId>>
       /\ IF found = {}
          THEN /\ res' = Json("verify-email", req, 400, "Invalid email", Undefined)
               /\ mail' = NoMail
               /\ UNCHANGED <<users, authToken>>
          ELSE LET id == CHOOSE i \in found : TRUE
                   user == users[id]
               IN IF VerifyEmailAlreadyVerified(user)
                  THEN /\ res' = Json("verify-email", req, 400, "User already verified", Undefined)
                       /\ mail' = NoMail
                       /\ UNCHANGED <<users, authToken>>
                  ELSE IF ~verifyVerificationOTP(user, otp)
                  THEN /\ res' = Json("verify-email", req, 400, "Invalid or expired OTP", Undefined)
                       /\ mail' = NoMail
                       /\ UNCHANGED <<users, authToken>>
                  ELSE LET token == generateToken(id)
                       IN /\ users' \in { Put(id, doc) : doc \in PreSave(VerifiedUser(user), VerifiedPaths) }
                          /\ authToken' = token
                          /\ mail' = WelcomeMail(email)
                          /\ res' = Json("verify-email", req, 200, "Email verified successfully",
                                         [token |-> token, user |-> UserView(id, user)])

\* a distinct answer for an unknown email
LoginNoUserRes_Distinct == [status |-> 404, message |-> "User not found"]

\* POST /api/auth/login, lines 146-151: no account for the email
LoginNoUserRes == [status |-> 401, message |-> "Invalid email or password"]

\* POST /api/auth/login, lines 155-160: the password does not match
LoginBadPasswordRes == [status |-> 401, message |-> "Invalid email or password"]

\* login without the verification gate
LoginNeedsVerification_Skipped(user) == FALSE

\* POST /api/auth/login, line 163: the verification gate
LoginNeedsVerification(user) == ~user.isVerified

\* POST /api/auth/login: the response for a request, before it is sent
LoginResponse(email, password) ==
    LET req == [email |-> email, password |-> password]
        found == FindByEmail(email)
    IN IF found = {}
       THEN Json("login", req, LoginNoUserRes.status, LoginNoUserRes.message, Undefined)
       ELSE LET id == CHOOSE i \in found : TRUE
                user == users[id]
                isPasswordValid == comparePassword(user, password)
            IN IF isPasswordValid = "throw"
               THEN Json("login", req, 500, "Error logging in", [error |-> "Password comparison failed"])
               ELSE IF isPasswordValid = "false"
               THEN Json("login", req, LoginBadPasswordRes.status, LoginBadPasswordRes.message, Undefined)
               ELSE IF LoginNeedsVerification(user)
               THEN Json("login", req, 403, "Email not verified. Please verify your email.",
                         [needsVerification |-> TRUE, email |-> user.email])
               ELSE Json("login", req, 200, "Login successful",
                         [token |-> generateToken(id), user |-> UserView(id, user)])

\* POST /api/auth/login
Login(raw, password) ==
    LET r == LoginResponse(NormalizeEmail(raw), password)
    IN /\ res' = r
       /\ authToken' = IF r.status = 200 THEN r.data.token ELSE authToken
       /\ mail' = NoMail
       /\ UNCHANGED <<users, nextId, now, inflight, tasks, nextTaskId>>

\* POST /api/auth/forgot-password
ForgotPassword(raw, otp, salt, delivered) ==
    LET email == NormalizeEmail(raw)
        req == [email |-> email]
        found == FindByEmail(email)
    IN /\ UNCHANGED <<nextId, now, authToken, inflight, tasks, nextTaskId>>
       /\ IF found = {}
          THEN /\ res' = Json("forgot-password", req, 200,
                              "If an account exists with this email, an OTP has been sent", Undefined)
               /\ mail' = NoMail
               /\ UNCHANGED users
          ELSE LET id == CHOOSE i \in found : TRUE
                   user == generateResetOTP(users[id], otp, salt)
                   emailResult == sendPasswordResetEmailResult(delivered)
               IN /\ users' \in { Put(id, doc) : doc \in PreSave(user, ResetPaths) }
                  /\ mail' = Mail("reset", email, otp, delivered)
                  /\ IF ~emailResult.success
                     THEN res' = Json("forgot-password", req, 500,
                                      "Error sending email. Please try again later.", Undefined)
                     ELSE res' = Json("forgot-password", req, 200,
                                      "OTP sent to your email. Valid for 10 minutes.", [email |-> email])

\* a verify-otp that consumes the challenge it accepts
VerifyOTP_Consumes(raw, otp) ==
    LET email == NormalizeEmail(raw)
        req == [email |-> email, otp |-> otp]
        found == FindByEmail(email)
        rejected == \/ found = {}
                    \/ \E id \in found : \/ users[id].resetPasswordOTP = Undefined
                                         \/ ~verifyResetOTP(users[id], otp)
    IN /\ res' = IF rejected
                 THEN Json("verify-otp", req, 400, "Invalid or expired OTP", Undefined)
                 ELSE Json("verify-otp", req, 200, "OTP verified successfully", Undefined)
       /\ mail' = NoMail
       /\ users' = IF rejected THEN users
                   ELSE [i \in DOMAIN users |->
                           IF i \in found
                           THEN [users[i] EXCEPT !.resetPasswordOTP = Undefined,
                                                 !.resetPasswordExpire = Undefined]
                           ELSE users[i]]
       /\ UNCHANGED <<nextId, now, authToken, inflight, tasks, nextTaskId>>

\* POST /api/auth/verify-otp
VerifyOTP(raw, otp) ==
    LET email == NormalizeEmail(raw)
        req == [email |-> email, otp |-> otp]
        found == FindByEmail(email)
        rejected == \/ found = {}
                    \/ \E id \in found : \/ users[id].resetPasswordOTP = Undefined
                                         \/ ~verifyResetOTP(users[id], otp)
    IN /\ res' = IF rejected
                 THEN Json("verify-otp", req, 400, "Invalid or expired OTP", Undefined)
                 ELSE Json("verify-otp", req, 200, "OTP verified successfully", Undefined)
       /\ mail' = NoMail
       /\ UNCHANGED <<users, nextId, now, authToken, inflight, tasks, nextTaskId>>

\* a reset that also marks the account verified
ResetUser_Verifies(user, newPassword, salt) ==
    [user EXCEPT !.password = BcryptHash(newPassword, salt),
                 !.isVerified = TRUE,
                 !.resetPasswordOTP = Undefined,
                 !.resetPasswordExpire = Undefined]

\* a reset that clears the challenge but never assigns the new password
ResetUser_KeepsPassword(user, newPassword, salt) ==
    [user EXCEPT !.resetPasswordOTP = Undefined,
                 !.resetPasswordExpire = Undefined]

\* a reset that replaces the password but leaves the challenge in place
ResetUser_KeepsChallenge(user, newPassword, salt) ==
    [user EXCEPT !.password = BcryptHash(newPassword, salt)]

\* a reset that unsets the hashed code and leaves its expiry behind
ResetUser_KeepsExpire(user, newPassword, salt) ==
    [user EXCEPT !.password = BcryptHash(newPassword, salt),
                 !.resetPasswordOTP = Undefined]

\* POST /api/auth/reset-password, lines 323-326: the document that is saved;
\* the pre('save') hook hashes the modified password.
ResetUser(user, newPassword, salt) ==
    [user EXCEPT !.password = BcryptHash(newPassword, salt),
                 !.resetPasswordOTP = Undefined,
                 !.resetPasswordExpire = Undefined]

\* POST /api/auth/reset-password
ResetPassword(raw, otp, newPassword, salt) ==
    LET email == NormalizeEmail(raw)
        req == [email |-> email, otp |-> otp, newPassword |-> newPassword]
        found == FindByEmail(email)
        rejected == \/ found = {}
                    \/ \E id \in found : \/ users[id].resetPasswordOTP = Undefined
                                         \/ ~verifyResetOTP(users[id], otp)
    IN /\ mail' = NoMail
       /\ UNCHANGED <<nextId, now, authToken, inflight, tasks, nextTaskId>>
       /\ IF rejected
          THEN /\ res' = Json("reset-password", req, 400, "Invalid or expired OTP", Undefined)
               /\ UNCHANGED users
          ELSE LET id == CHOOSE i \in found : TRUE
               IN /\ users' = Put(id, ResetUser(users[id], newPassword, salt))
                  /\ res' = Json("reset-password", req, 200,
                                 "Password reset successful. You can now login with your new password.",
                                 Undefined)

\* protect without the account lookup
Protect_NoLookup(token) ==
    IF token = Undefined
    THEN [ok |-> FALSE, status |-> 401, message |-> "Not authorized to access this route. Please login."]
    ELSE IF JwtVerify(token) = "JsonWebTokenError"
    THEN [ok |-> FALSE, status |-> 401, message |-> "Invalid token. Please login again."]
    ELSE IF JwtVerify(token) = "TokenExpiredError"
    THEN [ok |-> FALSE, status |-> 401, message |-> "Token expired. Please login again."]
    ELSE [ok |-> TRUE, user |-> token.id]

\* middleware/auth.js protect: jwt.verify, then User.findById(decoded.id)
Protect(token) ==
    IF token = Undefined
    THEN [ok |-> FALSE, status |-> 401, message |-> "Not authorized to access this route. Please login."]
    ELSE IF JwtVerify(token) = "JsonWebTokenError"
    THEN [ok |-> FALSE, status |-> 401, message |-> "Invalid token. Please login again."]
    ELSE IF JwtVerify(token) = "TokenExpiredError"
    THEN [ok |-> FALSE, status |-> 401, message |-> "Token expired. Please login again."]
    ELSE IF token.id \notin DOMAIN users
    THEN [ok |-> FALSE, status |-> 401, message |-> "User not found. Please login again."]
    ELSE [ok |-> TRUE, user |-> token.id]

\* DELETE /api/auth/delete, with the bearer token the client holds
DeleteAccount ==
    LET gate == Protect(authToken)
        req == [token |-> authToken]
    IN /\ mail' = NoMail
       /\ UNCHANGED <<nextId, now, authToken, inflight, tasks, nextTaskId>>
       /\ IF ~gate.ok
          THEN /\ res' = Json("delete", req, gate.status, gate.message, Undefined)
               /\ UNCHANGED users
          ELSE /\ users' = Remove(gate.user)
               /\ res' = Json("delete", req, 200, "Account deleted successfully", Undefined)

Next ==
    \/ Tick
    \/ \E raw \in RawEmails, password \in Passwords, reqName \in Names, otp \in IssuedOTPs,
          salt1 \in Salts, salt2 \in Salts, delivered \in BOOLEAN :
          Signup(raw, password, reqName, otp, salt1, salt2, delivered)
    \/ \E raw \in RawEmails, otp \in OTPs : VerifyEmail(raw, otp)
    \/ \E raw \in RawEmails, password \in Passwords : Login(raw, password)
    \/ \E raw \in RawEmails, otp \in IssuedOTPs, salt \in Salts, delivered \in BOOLEAN :
          ForgotPassword(raw, otp, salt, delivered)
    \/ \E raw \in RawEmails, otp \in OTPs : VerifyOTP(raw, otp)
    \/ \E raw \in RawEmails, otp \in OTPs, newPassword \in Passwords, salt \in Salts :
          ResetPassword(raw, otp, newPassword, salt)
    \/ DeleteAccount

Spec == Init /\ [][Next]_vars

(* ------------- routes/auth.js, one step per await --------------------- *)
\* Raw emails of the overlapping requests: two spellings of one address
ConcEmails == {<<"a", "@", "x">>, <<"A", "@", "x">>}

Suspend(p, frame) == inflight' = [inflight EXCEPT ![p] = frame]

Finish(p) == inflight' = [inflight EXCEPT ![p] = Idle]

\* a collection without the unique index on email
DuplicateKey_NoIndex(email) == FALSE

\* models/User.js line 8, unique: true: an insert of an email that is already
\* stored is refused by the index (E11000 duplicate key)
DuplicateKey(email) == FindByEmail(email) # {}

\* POST /api/auth/signup, lines 21-29: await User.findOne({ email })
SignupFindOne(p, raw, password) ==
    LET email == NormalizeEmail(raw)
        req == [email |-> email, password |-> password]
    IN /\ inflight[p] = Idle
       /\ UNCHANGED <<users, nextId, now, authToken, tasks, nextTaskId>>
       /\ IF FindByEmail(email) # {}
          THEN /\ res' = Json("signup", req, 400, "User with this email already exists", Undefined)
               /\ mail' = NoMail
               /\ Finish(p)
          ELSE /\ Suspend(p, [pc |-> "signup:create", req |-> req])
               /\ UNCHANGED <<res, mail>>

\* POST /api/auth/signup, lines 31-38: await User.create(...); a duplicate
\* key error lands in the catch block, lines 65-71
SignupCreate(p, reqName, salt) ==
    LET f == inflight[p]
    IN /\ f.pc = "signup:create"
       /\ UNCHANGED <<now, authToken, tasks, nextTaskId>>
       /\ IF DuplicateKey(f.req.email)
          THEN /\ res' = Json("signup", f.req, 500, "Error creating user",
                              [error |-> "E11000 duplicate key error"])
               /\ mail' = NoMail
               /\ Finish(p)
               /\ UNCHANGED <<users, nextId>>
          ELSE LET name == IF reqName # Undefined THEN reqName ELSE DefaultName(f.req.email)
               IN /\ nextId <= MaxUsers
                  /\ nextId' = nextId + 1
                  /\ users' = Put(nextId, NewUser(f.req.email, f.req.password, name, salt))
                  /\ Suspend(p, [pc |-> "signup:save", req |-> f.req, id |-> nextId])
                  /\ UNCHANGED <<res, mail>>

\* POST /api/auth/signup, lines 40-42: generateVerificationOTP, await
\* user.save(), which writes the two modified fields of the stored document
SignupSaveOTP(p, otp, salt) ==
    LET f == inflight[p]
    IN /\ f.pc = "signup:save"
       /\ UNCHANGED <<nextId, now, authToken, tasks, nextTaskId>>
       /\ IF f.id \notin DOMAIN users
          THEN /\ res' = Json("signup", f.req, 500, "Error creating user",
                              [error |-> "No document found"])
               /\ mail' = NoMail
               /\ Finish(p)
               /\ UNCHANGED users
          ELSE /\ users' \in { Put(f.id, doc) :
                            doc \in PreSave(generateVerificationOTP(users[f.id], otp, salt),
                                            VerificationPaths) }
               /\ Suspend(p, [pc |-> "signup:send", req |-> f.req, id |-> f.id, otp |-> otp])
               /\ UNCHANGED <<res, mail>>

\* POST /api/auth/signup, lines 44-63: await sendVerificationEmail, then the
\* rollback or the 201 response
SignupRespond(p, delivered) ==
    LET f == inflight[p]
        emailResult == sendVerificationEmailResult(delivered)
    IN /\ f.pc = "signup:send"
       /\ UNCHANGED <<nextId, now, authToken, tasks, nextTaskId>>
       /\ mail' = Mail("verification", f.req.email, f.otp, delivered)
       /\ Finish(p)
       /\ IF ~emailResult.success
          THEN /\ users' = Remove(f.id)
               /\ res' = Json("signup", f.req, 500,
                              "Error sending verification email. Please check your email address and try again.",
                              Undefined)
          ELSE /\ UNCHANGED users
               /\ res' = Json("signup", f.req, 201,
                              "User registered. Please check your email for the verification code.",
                              [email |-> f.req.email, isVerified |-> FALSE])

\* POST /api/auth/reset-password, lines 300-320: await User.findOne, the two
\* rejections, and verifyResetOTP on the document that was read
ResetFindOne(p, raw, otp, newPassword) ==
    LET email == NormalizeEmail(raw)
        req == [email |-> email, otp |-> otp, newPassword |-> newPassword]
        found == FindByEmail(email)
        rejected == \/ found = {}
                    \/ \E id \in found : \/ users[id].resetPasswordOTP = Undefined
                                         \/ ~verifyResetOTP(users[id], otp)
    IN /\ inflight[p] = Idle
       /\ UNCHANGED <<users, nextId, now, authToken, tasks, nextTaskId>>
       /\ IF rejected
          THEN /\ res' = Json("reset-password", req, 400, "Invalid or expired OTP", Undefined)
               /\ mail' = NoMail
               /\ Finish(p)
          ELSE /\ Suspend(p, [pc |-> "reset:save", req |-> req,
                                id |-> CHOOSE i \in found : TRUE])
               /\ UNCHANGED <<res, mail>>

\* POST /api/auth/reset-password, lines 322-331: await user.save(), which
\* writes the three modified fields of the stored document, then the 200
ResetSave(p, salt) ==
    LET f == inflight[p]
    IN /\ f.pc = "reset:save"
       /\ UNCHANGED <<nextId, now, authToken, tasks, nextTaskId>>
       /\ mail' = NoMail
       /\ Finish(p)
       /\ IF f.id \notin DOMAIN users
          THEN /\ res' = Json("reset-password", f.req, 500, "Error resetting password",
                              [error |-> "No document found"])
               /\ UNCHANGED users
          ELSE /\ users' = Put(f.id, ResetUser(users[f.id], f.req.newPassword, salt))
               /\ res' = Json("reset-password", f.req, 200,
                              "Password reset successful. You can now login with your new password.",
                              Undefined)

\* DELETE /api/auth/delete, middleware/auth.js lines 8-38: protect, up to
\* next(); the gate's await User.findById is where the request is suspended
DeleteProtect(p) ==
    LET gate == Protect(authToken)
        req == [token |-> authToken]
    IN /\ inflight[p] = Idle
       /\ UNCHANGED <<users, nextId, now, authToken, tasks, nextTaskId>>
       /\ IF ~gate.ok
          THEN /\ res' = Json("delete", req, gate.status, gate.message, Undefined)
               /\ mail' = NoMail
               /\ Finish(p)
          ELSE /\ Suspend(p, [pc |-> "delete:remove", req |-> req, id |-> gate.user])
               /\ UNCHANGED <<res, mail>>

\* DELETE /api/auth/delete, lines 383-392: await User.findByIdAndDelete, whose
\* result (the removed document, or null) is not looked at, then the 200
DeleteRemove(p) ==
    LET f == inflight[p]
    IN /\ f.pc = "delete:remove"
       /\ UNCHANGED <<nextId, now, authToken, tasks, nextTaskId>>
       /\ mail' = NoMail
       /\ Finish(p)
       /\ users' = Remove(f.id)
       /\ res' = Json("delete", f.req, 200, "Account deleted successfully", Undefined)

\* POST /api/auth/verify-email, lines 84-98: await User.findOne, the three
\* rejections, verifyVerificationOTP on the document that was read
VerifyFindOne(p, raw, otp) ==
    LET email == NormalizeEmail(raw)
        req == [email |-> email, otp |-> otp]
        found == FindByEmail(email)
        id == CHOOSE i \in found : TRUE
    IN /\ inflight[p] = Idle
       /\ UNCHANGED <<users, nextId, now, authToken, tasks, nextTaskId>>
       /\ IF found = {}
          THEN /\ res' = Json("verify-email", req, 400, "Invalid email", Undefined)
               /\ mail' = NoMail
               /\ Finish(p)
          ELSE IF VerifyEmailAlreadyVerified(users[id])
          THEN /\ res' = Json("verify-email", req, 400, "User already verified", Undefined)
               /\ mail' = NoMail
               /\ Finish(p)
          ELSE IF ~verifyVerificationOTP(users[id], otp)
          THEN /\ res' = Json("verify-email", req, 400, "Invalid or expired OTP", Undefined)
               /\ mail' = NoMail
               /\ Finish(p)
          ELSE /\ Suspend(p, [pc |-> "verify:save", req |-> req, id |-> id,
                                user |-> UserView(id, users[id])])
               /\ UNCHANGED <<res, mail>>

\* POST /api/auth/verify-email, lines 100-123: await user.save(), which
\* writes the three modified fields of the stored document, then the token,
\* the welcome mail and the 200
VerifySave(p) ==
    LET f == inflight[p]
        token == generateToken(f.id)
    IN /\ f.pc = "verify:save"
       /\ UNCHANGED <<nextId, now, tasks, nextTaskId>>
       /\ Finish(p)
       /\ IF f.id \notin DOMAIN users
          THEN /\ res' = Json("verify-email", f.req, 500, "Error verifying email",
                              [error |-> "No document found"])
               /\ mail' = NoMail
               /\ UNCHANGED <<users, authToken>>
          ELSE /\ users' \in { Put(f.id, doc) :
                            doc \in PreSave(VerifiedUser(users[f.id]), VerifiedPaths) }
               /\ authToken' = token
               /\ mail' = WelcomeMail(f.req.email)
               /\ res' = Json("verify-email", f.req, 200, "Email verified successfully",
                              [token |-> token, user |-> f.user])

\* POST /api/auth/forgot-password, lines 204-218: await User.findOne, the
\* generic answer for an unknown email, generateResetOTP on the document
\* that was read
ForgotFindOne(p, raw, otp, salt) ==
    LET email == NormalizeEmail(raw)
        req == [email |-> email]
        found == FindByEmail(email)
        id == CHOOSE i \in found : TRUE
    IN /\ inflight[p] = Idle
       /\ UNCHANGED <<users, nextId, now, authToken, tasks, nextTaskId>>
       /\ IF found = {}
          THEN /\ res' = Json("forgot-password", req, 200,
                              "If an account exists with this email, an OTP has been sent",
                              Undefined)
               /\ mail' = NoMail
               /\ Finish(p)
          ELSE LET user == generateResetOTP(users[id], otp, salt)
               IN /\ Suspend(p, [pc |-> "forgot:save", req |-> req, id |-> id, otp |-> otp,
                                   resetPasswordOTP |-> user.resetPasswordOTP,
                                   resetPasswordExpire |-> user.resetPasswordExpire])
                  /\ UNCHANGED <<res, mail>>

\* a save that leaves a challenge already stored in place
ForgotSave_KeepsFirst(p) ==
    LET f == inflight[p]
    IN /\ f.pc = "forgot:save"
       /\ UNCHANGED <<nextId, now, authToken, tasks, nextTaskId>>
       /\ IF f.id \notin DOMAIN users
          THEN /\ res' = Json("forgot-password", f.req, 500, "Error processing request",
                              [error |-> "No document found"])
               /\ mail' = NoMail
               /\ Finish(p)
               /\ UNCHANGED users
          ELSE /\ users' = IF users[f.id].resetPasswordOTP # Undefined THEN users
                           ELSE Put(f.id, [users[f.id] EXCEPT
                                             !.resetPasswordOTP = f.resetPasswordOTP,
                                             !.resetPasswordExpire = f.resetPasswordExpire])
               /\ Suspend(p, [pc |-> "forgot:send", req |-> f.req, otp |-> f.otp])
               /\ UNCHANGED <<res, mail>>

\* POST /api/auth/forgot-password, line 219: await user.save(), which writes
\* the two modified fields of the stored document
ForgotSave(p) ==
    LET f == inflight[p]
    IN /\ f.pc = "forgot:save"
       /\ UNCHANGED <<nextId, now, authToken, tasks, nextTaskId>>
       /\ IF f.id \notin DOMAIN users
          THEN /\ res' = Json("forgot-password", f.req, 500, "Error processing request",
                              [error |-> "No document found"])
               /\ mail' = NoMail
               /\ Finish(p)
               /\ UNCHANGED users
          ELSE /\ users' \in { Put(f.id, doc) :
                            doc \in PreSave([users[f.id] EXCEPT
                                               !.resetPasswordOTP = f.resetPasswordOTP,
                                               !.resetPasswordExpire = f.resetPasswordExpire],
                                            ResetPaths) }
               /\ Suspend(p, [pc |-> "forgot:send", req |-> f.req, otp |-> f.otp])
               /\ UNCHANGED <<res, mail>>

\* POST /api/auth/forgot-password, lines 221-239: await
\* sendPasswordResetEmail, then the 500 or the 200
ForgotRespond(p, delivered) ==
    LET f == inflight[p]
        emailResult == sendPasswordResetEmailResult(delivered)
    IN /\ f.pc = "forgot:send"
       /\ UNCHANGED <<users, nextId, now, authToken, tasks, nextTaskId>>
       /\ Finish(p)
       /\ mail' = Mail("reset", f.req.email, f.otp, delivered)
       /\ IF ~emailResult.success
          THEN res' = Json("forgot-password", f.req, 500,
                           "Error sending email. Please try again later.", Undefined)
          ELSE res' = Json("forgot-password", f.req, 200,
                           "OTP sent to your email. Valid for 10 minutes.",
                           [email |-> f.req.email])

\* a welcome mail whose failure ends the process as an unhandled rejection
WelcomeEmailSettles_Unhandled(delivered) ==
    /\ mail.kind = "welcome"
    /\ mail.state = "pending"
    /\ mail' = [mail EXCEPT !.state = IF delivered THEN "sent" ELSE "failed",
                            !.exit = ~delivered]
    /\ UNCHANGED <<users, nextId, now, authToken, res, inflight, tasks, nextTaskId>>

\* POST /api/auth/verify-email, line 110: sendWelcomeEmail(...).catch(
\* console.error) settles after the response was sent; a rejection that
\* reached no handler would end the process
WelcomeEmailSettles(delivered) ==
    LET promise == sendWelcomeEmailSettles(delivered)
        caught == promise = "rejected"
        unhandled == promise = "rejected" /\ ~caught
    IN /\ mail.kind = "welcome"
       /\ mail.state = "pending"
       /\ mail' = [mail EXCEPT !.state = IF delivered THEN "sent" ELSE "failed",
                               !.exit = unhandled]
       /\ UNCHANGED <<users, nextId, now, authToken, res, inflight, tasks, nextTaskId>>

\* Requests that overlap: every handler advances one await at a time.
ConcNext ==
    \/ Tick
    \/ \E p \in Procs, raw \in ConcEmails, password \in Passwords : SignupFindOne(p, raw, password)
    \/ \E p \in Procs, reqName \in Names, salt \in Salts : SignupCreate(p, reqName, salt)
    \/ \E p \in Procs, otp \in IssuedOTPs, salt \in Salts : SignupSaveOTP(p, otp, salt)
    \/ \E p \in Procs, delivered \in BOOLEAN : SignupRespond(p, delivered)
    \/ \E p \in Procs, raw \in ConcEmails, otp \in OTPs : VerifyFindOne(p, raw, otp)
    \/ \E p \in Procs : VerifySave(p)
    \/ \E delivered \in BOOLEAN : WelcomeEmailSettles(delivered)
    \/ \E p \in Procs, raw \in ConcEmails, otp \in IssuedOTPs, salt \in Salts :
          ForgotFindOne(p, raw, otp, salt)
    \/ \E p \in Procs : ForgotSave(p)
    \/ \E p \in Procs, delivered \in BOOLEAN : ForgotRespond(p, delivered)
    \/ \E p \in Procs, raw \in ConcEmails, otp \in OTPs, newPassword \in Passwords :
          ResetFindOne(p, raw, otp, newPassword)
    \/ \E p \in Procs, salt \in Salts : ResetSave(p, salt)
    \/ \E p \in Procs : DeleteProtect(p)
    \/ \E p \in Procs : DeleteRemove(p)

ConcSpec == Init /\ [][ConcNext]_vars

(* ---------------- routes/tasks.js and the bearer token ----------------- *)
\* Raw emails, progress values of the requests to the protected routes
ApiEmails == {<<"a", "@", "x">>, <<"b", "@", "x">>}

ApiPasswords == {JsonString("pass123")}

TaskProgress == {0, 100}

\* POST /api/tasks, lines 103-113: the document handed to Task.create
\* (progress || 0, completed || false)
NewTask(userId, progress, completed) ==
    [userId |-> userId,
     progress |-> IF progress = 0 THEN 0 ELSE progress,
     completed |-> IF completed THEN TRUE ELSE FALSE]

\* POST /api/tasks behind router.use(protect), with the bearer token the
\* client holds
CreateTask(progress, completed) ==
    LET gate == Protect(authToken)
        req == [token |-> authToken, progress |-> progress, completed |-> completed]
    IN /\ mail' = NoMail
       /\ UNCHANGED <<users, nextId, now, authToken, inflight>>
       /\ IF ~gate.ok
          THEN /\ res' = Json("create-task", req, gate.status, gate.message, Undefined)
               /\ UNCHANGED <<tasks, nextTaskId>>
          ELSE LET task == NewTask(gate.user, progress, completed)
               IN /\ nextTaskId' = nextTaskId + 1
                  /\ tasks' = [t \in DOMAIN tasks \cup {nextTaskId} |->
                                  IF t = nextTaskId THEN task ELSE tasks[t]]
                  /\ res' = Json("create-task", req, 201, "Task created successfully",
                                 [id |-> nextTaskId, userId |-> task.userId])

\* What a client can put in the Authorization header in place of the token
\* it was issued: a string that is not a JWT, the token with its payload
\* edited (another account id, a later expiry) under the old signature, or
\* the same payload signed with a key that is not the server's.
TokenAlterations == {"malformed", "id", "exp", "key"}

AlteredToken(token, kind, id) ==
    IF kind = "malformed" THEN MalformedToken
    ELSE IF kind = "id" THEN [token EXCEPT !.id = id]
    ELSE IF kind = "exp" THEN [token EXCEPT !.exp = token.exp + 1]
    ELSE [token EXCEPT !.sig = Sign(OtherSecret, token.id, token.iat, token.exp)]

\* The client replaces the token it holds (authToken = ..., front end)
ClientAltersToken(kind, id) ==
    /\ authToken # Undefined
    /\ JwtVerify(authToken) # "JsonWebTokenError"
    /\ (kind = "id") = (id # authToken.id)
    /\ authToken' = AlteredToken(authToken, kind, id)
    /\ UNCHANGED <<users, nextId, now, res, mail, inflight, tasks, nextTaskId>>

\* Requests to the protected routes, one at a time, with issued and altered
\* tokens
ApiNext ==
    \/ Tick
    \/ \E raw \in ApiEmails, password \in ApiPasswords, reqName \in Names, otp \in IssuedOTPs,
          salt1 \in Salts, salt2 \in Salts :
          Signup(raw, password, reqName, otp, salt1, salt2, TRUE)
    \/ \E raw \in ApiEmails, otp \in IssuedOTPs : VerifyEmail(raw, otp)
    \/ \E raw \in ApiEmails, password \in ApiPasswords : Login(raw, password)
    \/ \E progress \in TaskProgress, completed \in BOOLEAN :
          (nextTaskId <= MaxTasks \/ ~Protect(authToken).ok) /\ CreateTask(progress, completed)
    \/ DeleteAccount
    \/ \E kind \in TokenAlterations, id \in 1..MaxUsers : ClientAltersToken(kind, id)

ApiSpec == Init /\ [][ApiNext]_vars

(* ------------------- login with any JSON body ------------------------- *)
(* ----------------------- one-time code generation --------------------- *)
RECURSIVE Pow2(_), Excess(_), NumberToString(_)

\* A binary floating-point number with a FloatBits-bit significand is kept
\* as an integer count of units of 2^-FloatBits.
Pow2(n) == IF n = 0 THEN 1 ELSE 2 * Pow2(n - 1)

FloatUnit == Pow2(FloatBits)

\* number of low bits that do not fit the significand
Excess(n) == IF n < FloatUnit THEN 0 ELSE 1 + Excess(n \div 2)

\* the result of an arithmetic operation, rounded to the nearest
\* representable value, ties to even
RoundToFloat(n) ==
    LET s == Excess(n)
        q == n \div Pow2(s)
        r == n % Pow2(s)
        up == s > 0 /\ (2 * r > Pow2(s) \/ (2 * r = Pow2(s) /\ q % 2 = 1))
    IN (IF up THEN q + 1 ELSE q) * Pow2(s)

\* Math.random(): a multiple of 2^-FloatBits in [0, 1)
MathRandom == { 0, 1, FloatUnit \div 9, FloatUnit \div 2, FloatUnit - 2, FloatUnit - 1 }

MathFloor(x) == x \div FloatUnit

DigitChar(d) == <<"0", "1", "2", "3", "4", "5", "6", "7", "8", "9">>[d + 1]

\* Number.prototype.toString() of a non-negative integer
NumberToString(n) ==
    IF n < 10 THEN <<DigitChar(n)>>
    ELSE Append(NumberToString(n \div 10), DigitChar(n % 10))

\* a generator that rounds to the nearest integer
MathRandomOTP_Rounds(random) ==
    NumberToString((RoundToFloat(1000 * FloatUnit + RoundToFloat(random * 9000))
                      + FloatUnit \div 2) \div FloatUnit)

\* Math.floor(1000 + Math.random() * 9000).toString()
MathRandomOTP(random) ==
    NumberToString(MathFloor(RoundToFloat(1000 * FloatUnit + RoundToFloat(random * 9000))))

GeneratedOTPs == { MathRandomOTP(random) : random \in MathRandom }

DecimalDigits == { DigitChar(d) : d \in 0..9 }

AllDigits(s) == \A i \in 1..Len(s) : s[i] \in DecimalDigits

\* validator.js isNumeric: an optional sign, an optional run of digits
\* closed by a point, then at least one digit
IsNumeric(s) ==
    LET body == IF Len(s) > 0 /\ s[1] \in {"+", "-"} THEN Tail(s) ELSE s
    IN \E i \in 0..Len(body) :
          /\ i < Len(body)
          /\ AllDigits(SubSeq(body, i + 1, Len(body)))
          /\ i > 0 => (body[i] = "." /\ AllDigits(SubSeq(body, 1, i - 1)))

\* body('otp').isLength({ min: 4, max: 4 }).isNumeric(): the messages of the
\* rules that fail
OtpErrors(otp) ==
    (IF Len(otp) = 4 THEN {} ELSE {"OTP must be 4 digits"})
       \cup (IF IsNumeric(otp) THEN {} ELSE {"OTP must contain only numbers"})

\* otp fields a request may carry: the generated codes, and texts that the
\* validation rules turn away or let through
RequestOTPs ==
    GeneratedOTPs \cup { <<"9", "9", "9">>, <<"1", "2", "a", "4">>, <<"+", "1", "2", "3">> }

\* validate(...): a 400 with the failed rules when any rule fails
ValidationFailed(op, req, errors) ==
    /\ errors # {}
    /\ res' = Json(op, req, 400, "Validation failed", [errors |-> errors])
    /\ mail' = NoMail
    /\ UNCHANGED <<users, nextId, now, authToken, inflight, tasks, nextTaskId>>

OtpEmails == { <<"a", "@", "x">> }

OtpPasswords == { JsonString("pass123") }

\* router.post('/verify-email', verifyOTPValidation, handler)
ValidatedVerifyEmail(raw, otp) ==
    \/ OtpErrors(otp) = {} /\ VerifyEmail(raw, otp)
    \/ ValidationFailed("verify-email", [email |-> NormalizeEmail(raw), otp |-> otp],
                        OtpErrors(otp))

\* router.post('/reset-password', resetPasswordValidation, handler)
ValidatedResetPassword(raw, otp, newPassword, salt) ==
    \/ OtpErrors(otp) = {} /\ ResetPassword(raw, otp, newPassword, salt)
    \/ ValidationFailed("reset-password",
                        [email |-> NormalizeEmail(raw), otp |-> otp,
                         newPassword |-> newPassword],
                        OtpErrors(otp))

OtpNext ==
    \/ Tick
    \/ \E raw \in OtpEmails, password \in OtpPasswords, reqName \in Names, random \in MathRandom,
          salt1 \in Salts, salt2 \in Salts, delivered \in BOOLEAN :
          Signup(raw, password, reqName, MathRandomOTP(random), salt1, salt2, delivered)
    \/ \E raw \in OtpEmails, otp \in RequestOTPs : ValidatedVerifyEmail(raw, otp)
    \/ \E raw \in OtpEmails, random \in MathRandom, salt \in Salts, delivered \in BOOLEAN :
          ForgotPassword(raw, MathRandomOTP(random), salt, delivered)
    \/ \E raw \in OtpEmails, otp \in RequestOTPs, newPassword \in OtpPasswords, salt \in Salts :
          ValidatedResetPassword(raw, otp, newPassword, salt)

OtpSpec == Init /\ [][OtpNext]_vars

(* --------------------- overlapping password resets -------------------- *)
ResetEmails == { <<"a", "@", "x">> }

\* forgot-password and reset-password one await at a time, with two codes
\* that Math.random() can draw
ResetNext ==
    \/ Tick
    \/ \E raw \in ResetEmails, password \in ApiPasswords, reqName \in Names, otp \in IssuedOTPs,
          salt1 \in Salts, salt2 \in Salts :
          Signup(raw, password, reqName, otp, salt1, salt2, TRUE)
    \/ \E p \in Procs, raw \in ResetEmails, otp \in OTPs, salt \in Salts :
          ForgotFindOne(p, raw, otp, salt)
    \/ \E p \in Procs : ForgotSave(p)
    \/ \E p \in Procs, delivered \in BOOLEAN : ForgotRespond(p, delivered)
    \/ \E raw \in ResetEmails, otp \in OTPs : VerifyOTP(raw, otp)
    \/ \E p \in Procs, raw \in ResetEmails, otp \in OTPs, newPassword \in Passwords :
          ResetFindOne(p, raw, otp, newPassword)
    \/ \E p \in Procs, salt \in Salts : ResetSave(p, salt)

ResetSpec == Init /\ [][ResetNext]_vars

(* -------------------------- routes/tasks.js --------------------------- *)
\* req.params.id and the members of req.body.taskIds: well-formed ids
TaskIds == 1..MaxTasks

\* the tasks Task.find({ userId }) returns
TasksOf(userId) == { t \in DOMAIN tasks : tasks[t].userId = userId }

\* Task.findOne({ _id, userId }): the matching ids, none or one
FindTask(taskId, userId) == { t \in TasksOf(userId) : t = taskId }

\* a protected request that protect ended: the 401, and nothing else
Unauthorized(op, req, gate) ==
    /\ ~gate.ok
    /\ res' = Json(op, req, gate.status, gate.message, Undefined)
    /\ UNCHANGED <<tasks, nextTaskId>>

\* GET /api/tasks
ListTasks ==
    LET gate == Protect(authToken)
        req == [token |-> authToken]
    IN /\ mail' = NoMail
       /\ UNCHANGED <<users, nextId, now, authToken, inflight>>
       /\ \/ Unauthorized("list-tasks", req, gate)
          \/ /\ gate.ok
             /\ res' = Json("list-tasks", req, 200, "",
                            [count |-> Cardinality(TasksOf(gate.user)),
                             data |-> TasksOf(gate.user)])
             /\ UNCHANGED <<tasks, nextTaskId>>

\* GET /api/tasks/:id
GetTask(taskId) ==
    LET gate == Protect(authToken)
        req == [token |-> authToken, id |-> taskId]
    IN /\ mail' = NoMail
       /\ UNCHANGED <<users, nextId, now, authToken, inflight>>
       /\ \/ Unauthorized("get-task", req, gate)
          \/ /\ gate.ok
             /\ UNCHANGED <<tasks, nextTaskId>>
             /\ IF FindTask(taskId, gate.user) = {}
                THEN res' = Json("get-task", req, 404, "Task not found", Undefined)
                ELSE res' = Json("get-task", req, 200, "", [id |-> taskId, task |-> tasks[taskId]])

\* the bodies of PUT /api/tasks/:id that taskUpdateValidation lets through:
\* every field is optional
UpdateBodies ==
    { [progress |-> 50], [progress |-> 0], [completed |-> TRUE], [completed |-> FALSE],
      [progress |-> 50, completed |-> TRUE] }

\* PUT /api/tasks/:id, lines 151-169: the fields present in the body are
\* assigned, then progress becomes 100 when the body says completed
UpdatedTask(task, body) ==
    LET assigned ==
            [task EXCEPT !.progress = IF "progress" \in DOMAIN body THEN body.progress ELSE @,
                         !.completed = IF "completed" \in DOMAIN body THEN body.completed ELSE @]
    IN IF "completed" \in DOMAIN body
       THEN [assigned EXCEPT !.progress = IF body.completed THEN 100 ELSE @]
       ELSE assigned

\* an update that looks the task up by its id alone
UpdateTask_AnyOwner(taskId, body) ==
    LET gate == Protect(authToken)
        req == [token |-> authToken, id |-> taskId, body |-> body]
    IN /\ mail' = NoMail
       /\ UNCHANGED <<users, nextId, now, authToken, inflight>>
       /\ \/ Unauthorized("update-task", req, gate)
          \/ /\ gate.ok
             /\ UNCHANGED nextTaskId
             /\ IF taskId \notin DOMAIN tasks
                THEN /\ res' = Json("update-task", req, 404, "Task not found", Undefined)
                     /\ UNCHANGED tasks
                ELSE /\ tasks' = [tasks EXCEPT ![taskId] = UpdatedTask(@, body)]
                     /\ res' = Json("update-task", req, 200, "Task updated successfully",
                                    [id |-> taskId, task |-> tasks'[taskId]])

\* PUT /api/tasks/:id
UpdateTask(taskId, body) ==
    LET gate == Protect(authToken)
        req == [token |-> authToken, id |-> taskId, body |-> body]
    IN /\ mail' = NoMail
       /\ UNCHANGED <<users, nextId, now, authToken, inflight>>
       /\ \/ Unauthorized("update-task", req, gate)
          \/ /\ gate.ok
             /\ UNCHANGED nextTaskId
             /\ IF FindTask(taskId, gate.user) = {}
                THEN /\ res' = Json("update-task", req, 404, "Task not found", Undefined)
                     /\ UNCHANGED tasks
                ELSE /\ tasks' = [tasks EXCEPT ![taskId] = UpdatedTask(@, body)]
                     /\ res' = Json("update-task", req, 200, "Task updated successfully",
                                    [id |-> taskId, task |-> tasks'[taskId]])

\* Task.findOneAndDelete / Task.deleteMany: the collection without the ids
WithoutTasks(ids) == [t \in DOMAIN tasks \ ids |-> tasks[t]]

\* DELETE /api/tasks/:id
DeleteTask(taskId) ==
    LET gate == Protect(authToken)
        req == [token |-> authToken, id |-> taskId]
    IN /\ mail' = NoMail
       /\ UNCHANGED <<users, nextId, now, authToken, inflight>>
       /\ \/ Unauthorized("delete-task", req, gate)
          \/ /\ gate.ok
             /\ UNCHANGED nextTaskId
             /\ IF FindTask(taskId, gate.user) = {}
                THEN /\ res' = Json("delete-task", req, 404, "Task not found", Undefined)
                     /\ UNCHANGED tasks
                ELSE /\ tasks' = WithoutTasks({taskId})
                     /\ res' = Json("delete-task", req, 200, "Task deleted successfully",
                                    [id |-> taskId, task |-> tasks[taskId]])

\* POST /api/tasks/bulk-delete
BulkDelete(taskIds) ==
    LET gate == Protect(authToken)
        req == [token |-> authToken, taskIds |-> taskIds]
    IN /\ mail' = NoMail
       /\ UNCHANGED <<users, nextId, now, authToken, inflight>>
       /\ \/ Unauthorized("bulk-delete", req, gate)
          \/ /\ gate.ok
             /\ UNCHANGED nextTaskId
             /\ IF taskIds = {}
                THEN /\ res' = Json("bulk-delete", req, 400,
                                    "Please provide an array of task IDs", Undefined)
                     /\ UNCHANGED tasks
                ELSE LET deleted == TasksOf(gate.user) \cap taskIds
                     IN /\ tasks' = WithoutTasks(deleted)
                        /\ res' = Json("bulk-delete", req, 200, "task(s) deleted successfully",
                                       [deletedCount |-> Cardinality(deleted)])

(* ------------------- GET /api/tasks/stats/summary --------------------- *)
\* JavaScript numbers are IEEE 754 doubles: a significand of DoubleBits
\* bits, here a leading part `top` followed by Limbs limbs of LimbBits bits,
\* so that no intermediate value exceeds the range of the integers.
LimbBase == Pow2(LimbBits)

RECURSIVE LeadShift(_, _, _), QuotientLimbs(_, _, _), QuotientRem(_, _, _),
          AddToLimbs(_, _), TimesLimbs(_, _, _), BitLength(_)

\* the least e with c * 2^e >= t, for 0 < c < t
LeadShift(c, t, e) == IF c >= t THEN e ELSE LeadShift(2 * c, t, e + 1)

\* the next k limbs of the binary expansion of r / t, for r < t
QuotientLimbs(r, t, k) ==
    IF k = 0 THEN <<>>
    ELSE <<(r * LimbBase) \div t>> \o QuotientLimbs((r * LimbBase) % t, t, k - 1)

\* the remainder left after those k limbs
QuotientRem(r, t, k) ==
    IF k = 0 THEN r ELSE QuotientRem((r * LimbBase) % t, t, k - 1)

\* limbs + inc, with the carry out of the first limb
AddToLimbs(limbs, inc) ==
    IF limbs = <<>> THEN [limbs |-> <<>>, carry |-> inc]
    ELSE LET sum == limbs[Len(limbs)] + inc
             rest == AddToLimbs(SubSeq(limbs, 1, Len(limbs) - 1), sum \div LimbBase)
         IN [limbs |-> rest.limbs \o <<sum % LimbBase>>, carry |-> rest.carry]

\* limbs * m + carry, with the carry out of the first limb
TimesLimbs(limbs, m, carry) ==
    IF limbs = <<>> THEN [limbs |-> <<>>, carry |-> carry]
    ELSE LET product == limbs[Len(limbs)] * m + carry
             rest == TimesLimbs(SubSeq(limbs, 1, Len(limbs) - 1), m, product \div LimbBase)
         IN [limbs |-> rest.limbs \o <<product % LimbBase>>, carry |-> rest.carry]

BitLength(n) == IF n = 0 THEN 0 ELSE 1 + BitLength(n \div 2)

\* round to nearest, ties to even, to DoubleBits significant bits: the bits
\* of `top` beyond the first push as many bits out of the last limb
RoundToDouble(x) ==
    LET cut == BitLength(x.top) - 1
        unit == Pow2(cut)
        last == x.limbs[Limbs]
        dropped == last % unit
        kept == last - dropped
        half == cut > 0 /\ 2 * dropped >= unit
        sticky == cut > 0 /\ (2 * dropped) % unit # 0
        odd == (kept \div unit) % 2 = 1
        up == half /\ (sticky \/ odd)
        sum == AddToLimbs([x.limbs EXCEPT ![Limbs] = kept], IF up THEN unit ELSE 0)
    IN [top |-> x.top + sum.carry, limbs |-> sum.limbs, scale |-> x.scale]

\* completedTasks / totalTasks for 0 < completed < total, correctly
\* rounded: the value is (top + limbs / 2^(DoubleBits - 1)) / 2^scale
DoubleQuotient(completed, total) ==
    LET e == LeadShift(completed, total, 0)
        r == completed * Pow2(e) - total
        limbs == QuotientLimbs(r, total, Limbs)
        rest == QuotientRem(r, total, Limbs)
        half == 2 * rest >= total
        sticky == (2 * rest) % total # 0
        odd == limbs[Limbs] % 2 = 1
        up == half /\ (sticky \/ odd)
        sum == AddToLimbs(limbs, IF up THEN 1 ELSE 0)
    IN [top |-> 1 + sum.carry, limbs |-> sum.limbs, scale |-> e]

\* x * 100
DoubleTimes100(x) ==
    LET product == TimesLimbs(x.limbs, 100, 0)
    IN RoundToDouble([top |-> x.top * 100 + product.carry, limbs |-> product.limbs,
                      scale |-> x.scale])

\* Math.round, for a scale of at least 1: the nearest integer, a half
\* going up
MathRound(x) ==
    (x.top \div Pow2(x.scale)) + ((x.top \div Pow2(x.scale - 1)) % 2)

\* totalTasks > 0 ? Math.round((completedTasks / totalTasks) * 100) : 0
CompletionPercentage(completedTasks, totalTasks) ==
    IF totalTasks > 0
    THEN IF completedTasks = 0 THEN 0
         ELSE IF completedTasks = totalTasks THEN 100
         ELSE MathRound(DoubleTimes100(DoubleQuotient(completedTasks, totalTasks)))
    ELSE 0

\* lines 274-299: the summary of the tasks of one account
StatsSummary(userId) ==
    LET allTasks == TasksOf(userId)
        totalTasks == Cardinality(allTasks)
        completedTasks == Cardinality({ t \in allTasks : tasks[t].completed })
    IN [totalTasks |-> totalTasks,
        completedTasks |-> completedTasks,
        inProgressTasks |->
            Cardinality({ t \in allTasks : ~tasks[t].completed /\ tasks[t].progress > 0 }),
        pendingTasks |->
            Cardinality({ t \in allTasks : ~tasks[t].completed /\ tasks[t].progress = 0 }),
        completionPercentage |-> CompletionPercentage(completedTasks, totalTasks)]

\* GET /api/tasks/stats/summary
Stats ==
    LET gate == Protect(authToken)
        req == [token |-> authToken]
    IN /\ mail' = NoMail
       /\ UNCHANGED <<users, nextId, now, authToken, inflight>>
       /\ \/ Unauthorized("stats", req, gate)
          \/ /\ gate.ok
             /\ res' = Json("stats", req, 200, "", StatsSummary(gate.user))
             /\ UNCHANGED <<tasks, nextTaskId>>

(* ------------------------- the task routes ---------------------------- *)
\* body('progress') and body('taskIds') of the requests
UpdateProgress == {0, 50}

BulkIds == SUBSET TaskIds

\* Requests to /api/tasks and DELETE /api/auth/delete, one at a time, from
\* a client that holds the token of its last verify-email or login
TaskNext ==
    \/ \E raw \in ApiEmails, password \in ApiPasswords, reqName \in Names, otp \in IssuedOTPs,
          salt1 \in Salts, salt2 \in Salts :
          Signup(raw, password, reqName, otp, salt1, salt2, TRUE)
    \/ \E raw \in ApiEmails, otp \in IssuedOTPs : VerifyEmail(raw, otp)
    \/ \E raw \in ApiEmails, password \in ApiPasswords : Login(raw, password)
    \/ \E progress \in UpdateProgress, completed \in BOOLEAN :
          (nextTaskId <= MaxTasks \/ ~Protect(authToken).ok) /\ CreateTask(progress, completed)
    \/ ListTasks
    \/ \E taskId \in TaskIds : GetTask(taskId)
    \/ \E taskId \in TaskIds, body \in UpdateBodies : UpdateTask(taskId, body)
    \/ \E taskId \in TaskIds : DeleteTask(taskId)
    \/ \E taskIds \in BulkIds : BulkDelete(taskIds)
    \/ Stats

TaskSpec == Init /\ [][TaskNext]_vars

\* The protected routes asked with issued, expired and altered tokens, and
\* with the token of an account that has been deleted
GateTaskIds == {1}

GateBodies == { [completed |-> TRUE] }

GateNext ==
    \/ Tick
    \/ \E raw \in ApiEmails, password \in ApiPasswords, reqName \in Names, otp \in IssuedOTPs,
          salt1 \in Salts, salt2 \in Salts :
          Signup(raw, password, reqName, otp, salt1, salt2, TRUE)
    \/ \E raw \in ApiEmails, otp \in IssuedOTPs : VerifyEmail(raw, otp)
    \/ (nextTaskId <= MaxTasks \/ ~Protect(authToken).ok) /\ CreateTask(0, FALSE)
    \/ ListTasks
    \/ \E taskId \in GateTaskIds : GetTask(taskId)
    \/ \E taskId \in GateTaskIds, body \in GateBodies : UpdateTask(taskId, body)
    \/ \E taskId \in GateTaskIds : DeleteTask(taskId)
    \/ \E taskIds \in {GateTaskIds} : BulkDelete(taskIds)
    \/ Stats
    \/ DeleteAccount
    \/ \E kind \in TokenAlterations, id \in 1..MaxUsers : ClientAltersToken(kind, id)

GateSpec == Init /\ [][GateNext]_vars

\* One account filling its task list: completed tasks first, then open
\* ones, and the summary asked for at any point
StatsEmails == { <<"a", "@", "x">> }

StatsNext ==
    \/ \E raw \in StatsEmails, password \in ApiPasswords, reqName \in Names, otp \in IssuedOTPs,
          salt1 \in Salts, salt2 \in Salts :
          Signup(raw, password, reqName, otp, salt1, salt2, TRUE)
    \/ \E raw \in StatsEmails, otp \in IssuedOTPs : VerifyEmail(raw, otp)
    \/ \E completed \in BOOLEAN :
          /\ nextTaskId <= MaxStatsTasks \/ ~Protect(authToken).ok
          /\ completed => \A t \in DOMAIN tasks : tasks[t].completed
          /\ CreateTask(0, completed)
    \/ Stats

StatsSpec == Init /\ [][StatsNext]_vars

\* Passwords of a login body: loginValidation only asks that the field is
\* not empty, so a JSON number reaches the handler as a number
LoginPasswords == Passwords \cup {JsonNumber("123456")}

LoginNext ==
    \/ Tick
    \/ \E raw \in RawEmails, password \in Passwords, reqName \in Names, otp \in IssuedOTPs,
          salt1 \in Salts, salt2 \in Salts, delivered \in BOOLEAN :
          Signup(raw, password, reqName, otp, salt1, salt2, delivered)
    \/ \E raw \in RawEmails, otp \in IssuedOTPs : VerifyEmail(raw, otp)
    \/ \E raw \in RawEmails, password \in LoginPasswords : Login(raw, password)

LoginSpec == Init /\ [][LoginNext]_vars

(* ======================= properties of the code ======================= *)
NormalizedEmails == { NormalizeEmail(raw) : raw \in RawEmails }

\* The plaintext a stored bcrypt hash was computed from.
Matches(plain, hash) == hash # Undefined /\ hash.of = plain

\* What a client can see of a response: everything but the echo of its request.
Visible(r) == [status |-> r.status, message |-> r.message, data |-> r.data]

IssuesToken(r) == r.data # Undefined /\ "token" \in DOMAIN r.data

(* C1: for an account with isVerified = false, a login step never issues a
   session token, whatever password is supplied, and leaves the account
   unverified (the store and the client's token are unchanged). *)
C1_UnverifiedNeverLogsIn ==
    [][\A raw \in RawEmails, password \in Passwords :
          (/\ res'.op = "login"
           /\ \E id \in FindByEmail(NormalizeEmail(raw)) : ~users[id].isVerified
           /\ Login(raw, password))
          => /\ res'.status # 200
             /\ ~IssuesToken(res')
             /\ authToken' = authToken
             /\ users' = users]_vars

\* An unverified account was refused a login made with its correct password.
C1_Witness ==
    /\ res.op = "login"
    /\ res.status = 403
    /\ authToken = Undefined
    /\ \E id \in FindByEmail(res.req.email) :
          ~users[id].isVerified /\ Matches(res.req.password, users[id].password)

(* C2: login answers NotVerified (403 with the account email) exactly when the
   account exists, the password is correct and isVerified is false; an
   unverified account with a wrong password gets InvalidCredentials (401). *)
C2_NotVerifiedOnlyWithPassword ==
    \A email \in NormalizedEmails, password \in Passwords :
        LET r == LoginResponse(email, password)
            notVerified == /\ r.status = 403
                           /\ r.message = "Email not verified. Please verify your email."
                           /\ r.data = [needsVerification |-> TRUE, email |-> email]
        IN /\ notVerified <=> \E id \in FindByEmail(email) :
                                 /\ Matches(password, users[id].password)
                                 /\ ~users[id].isVerified
           /\ (\E id \in FindByEmail(email) :
                  ~users[id].isVerified /\ ~Matches(password, users[id].password))
              => /\ r.status = 401
                 /\ r.message = "Invalid email or password"
                 /\ r.data = Undefined

\* An unverified account was answered 401 for a wrong password.
C2_Witness ==
    /\ res.op = "login"
    /\ res.status = 401
    /\ \E id \in FindByEmail(res.req.email) :
          ~users[id].isVerified /\ ~Matches(res.req.password, users[id].password)

(* C3: in every store state, login with an email that has no account and login
   with an existing email and a wrong password give the same status, message
   and payload. *)
C3_LoginEnumerationResistance ==
    \A e1 \in NormalizedEmails, e2 \in NormalizedEmails, p1 \in Passwords, p2 \in Passwords :
        (/\ FindByEmail(e1) = {}
         /\ \E id \in FindByEmail(e2) : ~Matches(p2, users[id].password))
        => Visible(LoginResponse(e1, p1)) = Visible(LoginResponse(e2, p2))

\* One email is unknown while another has an account, and a login for the
\* unknown one has just been answered.
C3_Witness ==
    /\ res.op = "login"
    /\ res.status = 401
    /\ FindByEmail(res.req.email) = {}
    /\ \E id \in DOMAIN users : users[id].email # res.req.email

(* C4: after a successful signup exactly one account has the email, it is
   unverified and its verification challenge has both hash and expiry set. *)
C4_SignupCreatesUnverified ==
    (res.op = "signup" /\ res.status = 201)
    => /\ Cardinality(FindByEmail(res.req.email)) = 1
       /\ \A id \in FindByEmail(res.req.email) :
             /\ users[id].isVerified = FALSE
             /\ users[id].verificationOTP # Undefined
             /\ users[id].verificationOTPExpire # Undefined

\* A signup has succeeded while another account already existed.
C4_Witness ==
    /\ res.op = "signup"
    /\ res.status = 201
    /\ Cardinality(DOMAIN users) = 2

(* C5: if delivery of the verification email fails during signup, the signup
   answers 500 (EmailDeliveryFailed) and no account for the email remains. *)
C5_SignupRollsBackOnEmailFailure ==
    (mail.kind = "verification" /\ ~mail.delivered)
    => /\ res.op = "signup"
       /\ res.status = 500
       /\ FindByEmail(mail.to) = {}

\* Some code would be accepted by verify-email for the account right now.
CanStillVerify(id) ==
    /\ users[id].verificationOTP # Undefined
    /\ verifyVerificationOTP(users[id], users[id].verificationOTP.of)

(* C6: an account is never left unverifiable: every unverified account can
   still be brought to isVerified = true by some sequence of the public
   operations.  Only verify-email sets isVerified and only signup writes the
   verification challenge, so (see C6_ExpiredStaysUnverified) such a sequence
   exists exactly while the stored challenge is still accepted. *)
C6_NeverUnverifiable ==
    \A id \in DOMAIN users : ~users[id].isVerified => CanStillVerify(id)

\* Once the verification code of an unverified account has expired, no step of
\* any operation removes the account, verifies it or renews its challenge.
C6_ExpiredStaysUnverified ==
    [][\A id \in DOMAIN users :
          (~users[id].isVerified /\ ~CanStillVerify(id))
          => /\ id \in DOMAIN users'
             /\ ~users'[id].isVerified
             /\ ~CanStillVerify(id)']_vars

(* C7 as stated: for both challenge slots verification returns false whenever
   now >= expiresAt, true for the correct code whenever now < expiresAt, and
   false when the challenge is absent. *)
C7_RejectsFromExpiryInstant ==
    \A id \in DOMAIN users, otp \in OTPs :
        LET u == users[id]
        IN /\ (u.verificationOTPExpire # Undefined /\ now >= u.verificationOTPExpire.at)
              => ~verifyVerificationOTP(u, otp)
           /\ (u.resetPasswordExpire # Undefined /\ now >= u.resetPasswordExpire.at)
              => ~verifyResetOTP(u, otp)
           /\ (u.verificationOTPExpire # Undefined /\ now < u.verificationOTPExpire.at
               /\ Matches(otp, u.verificationOTP))
              => verifyVerificationOTP(u, otp)
           /\ (u.resetPasswordExpire # Undefined /\ now < u.resetPasswordExpire.at
               /\ Matches(otp, u.resetPasswordOTP))
              => verifyResetOTP(u, otp)
           /\ u.verificationOTP = Undefined => ~verifyVerificationOTP(u, otp)
           /\ u.resetPasswordOTP = Undefined => ~verifyResetOTP(u, otp)

(* C7 amended: for both challenge slots verification returns false whenever
   now > expiresAt, true for the correct code whenever now <= expiresAt (the
   instant now = expiresAt included), and false when the challenge is absent. *)
C7_RejectsAfterExpiry ==
    \A id \in DOMAIN users, otp \in OTPs :
        LET u == users[id]
        IN /\ (u.verificationOTPExpire # Undefined /\ now > u.verificationOTPExpire.at)
              => ~verifyVerificationOTP(u, otp)
           /\ (u.resetPasswordExpire # Undefined /\ now > u.resetPasswordExpire.at)
              => ~verifyResetOTP(u, otp)
           /\ (u.verificationOTPExpire # Undefined /\ now <= u.verificationOTPExpire.at
               /\ Matches(otp, u.verificationOTP))
              => verifyVerificationOTP(u, otp)
           /\ (u.resetPasswordExpire # Undefined /\ now <= u.resetPasswordExpire.at
               /\ Matches(otp, u.resetPasswordOTP))
              => verifyResetOTP(u, otp)
           /\ u.verificationOTP = Undefined => ~verifyVerificationOTP(u, otp)
           /\ u.resetPasswordOTP = Undefined => ~verifyResetOTP(u, otp)

\* verify-otp has accepted the issued code at the very instant of its expiry.
C7_Witness ==
    /\ res.op = "verify-otp"
    /\ res.status = 200
    /\ \E id \in FindByEmail(res.req.email) :
          /\ users[id].resetPasswordExpire = At(now)
          /\ Matches(res.req.otp, users[id].resetPasswordOTP)

(* C8: after verify-email succeeds the account is verified, its verification
   hash and expiry are both cleared, and the response carries a session token
   whose account id is that account's id. *)
C8_VerifyEmailSuccess ==
    (res.op = "verify-email" /\ res.status = 200)
    => /\ IssuesToken(res)
       /\ Cardinality(FindByEmail(res.req.email)) = 1
       /\ \A id \in FindByEmail(res.req.email) :
             /\ users[id].isVerified = TRUE
             /\ users[id].verificationOTP = Undefined
             /\ users[id].verificationOTPExpire = Undefined
             /\ res.data.token.id = id
             /\ res.data.user.id = id

\* verify-email has just succeeded.
C8_Witness ==
    /\ res.op = "verify-email"
    /\ res.status = 200
    /\ \E id \in FindByEmail(res.req.email) : authToken = res.data.token

(* C9: every verify-email step on an already verified account fails with
   'User already verified', whatever code is supplied, issues no token and
   leaves the store unchanged. *)
C9_AlreadyVerified ==
    [][\A raw \in RawEmails, otp \in OTPs :
          (/\ res'.op = "verify-email"
           /\ \E id \in FindByEmail(NormalizeEmail(raw)) : users[id].isVerified
           /\ VerifyEmail(raw, otp))
          => /\ res'.status = 400
             /\ res'.message = "User already verified"
             /\ ~IssuesToken(res')
             /\ authToken' = authToken
             /\ users' = users]_vars

\* A verify-email call on a verified account has been refused.
C9_Witness ==
    /\ res.op = "verify-email"
    /\ res.message = "User already verified"
    /\ \E id \in FindByEmail(res.req.email) : users[id].isVerified

\* The code is not the one issued, or the challenge is past its expiry.
WrongOrExpired(user, otp) ==
    \/ ~Matches(otp, user.verificationOTP)
    \/ (user.verificationOTPExpire # Undefined /\ now > user.verificationOTPExpire.at)

(* C10: a verify-email step with a wrong code, or with a code past its expiry,
   on an unverified account fails with 'Invalid or expired OTP', issues no
   token and changes no field of any account. *)
C10_RejectedVerifyChangesNothing ==
    [][\A raw \in RawEmails, otp \in OTPs :
          (/\ res'.op = "verify-email"
           /\ \E id \in FindByEmail(NormalizeEmail(raw)) :
                 ~users[id].isVerified /\ WrongOrExpired(users[id], otp)
           /\ VerifyEmail(raw, otp))
          => /\ res'.status = 400
             /\ res'.message = "Invalid or expired OTP"
             /\ ~IssuesToken(res')
             /\ authToken' = authToken
             /\ users' = users]_vars

\* The issued code was refused on an unverified account because it had expired.
C10_Witness ==
    /\ res.op = "verify-email"
    /\ res.message = "Invalid or expired OTP"
    /\ \E id \in FindByEmail(res.req.email) :
          /\ ~users[id].isVerified
          /\ Matches(res.req.otp, users[id].verificationOTP)
          /\ now > users[id].verificationOTPExpire.at

(* C11: isVerified of an account changes only from false to true, and only in
   a verify-email step that answers 200 for that account; no other step
   (signup, login, forgot-password, verify-otp, reset-password, delete of
   another account) changes it, so a verified account never becomes
   unverified and a reset-password on an unverified account leaves it so. *)
C11_VerifiedOnlyByVerifyEmail ==
    [][\A id \in DOMAIN users \cap DOMAIN users' :
          users'[id].isVerified # users[id].isVerified
          => /\ ~users[id].isVerified
             /\ users'[id].isVerified
             /\ res'.op = "verify-email"
             /\ res'.status = 200
             /\ res'.data.user.id = id
             /\ \E raw \in RawEmails, otp \in OTPs : VerifyEmail(raw, otp)]_vars

\* A reset-password has just replaced the password of an unverified account,
\* which is still unverified.
C11_Witness ==
    /\ res.op = "reset-password"
    /\ res.status = 200
    /\ \E id \in FindByEmail(res.req.email) :
          /\ ~users[id].isVerified
          /\ Matches(res.req.newPassword, users[id].password)

(* C12: a reset-password step for a verified account that carries the code
   of its stored, unexpired reset challenge answers 200 without asking for
   the old password; afterwards a login with the new password succeeds and
   issues a token, a login with the old password (when it differs from the
   new one) answers 'Invalid email or password', and the reset challenge is
   absent. *)
C12_ResetReplacesPassword ==
    [][\A email \in NormalizedEmails, otp \in OTPs, newPassword \in Passwords :
          (/\ res'.op = "reset-password"
           /\ res'.req = [email |-> email, otp |-> otp, newPassword |-> newPassword]
           /\ \E id \in FindByEmail(email) :
                 /\ users[id].isVerified
                 /\ Matches(otp, users[id].resetPasswordOTP)
                 /\ now <= users[id].resetPasswordExpire.at
           /\ \E raw \in RawEmails, salt \in Salts :
                 ResetPassword(raw, otp, newPassword, salt))
          => /\ res'.status = 200
             /\ \A id \in FindByEmail(email) :
                   /\ id \in DOMAIN users'
                   /\ users'[id].resetPasswordOTP = Undefined
                   /\ users'[id].resetPasswordExpire = Undefined
                   /\ LoginResponse(email, newPassword)'.status = 200
                   /\ IssuesToken(LoginResponse(email, newPassword)')
                   /\ \A old \in Passwords :
                         (Matches(old, users[id].password) /\ old # newPassword)
                         => Visible(LoginResponse(email, old)') =
                               [status |-> 401, message |-> "Invalid email or password",
                                data |-> Undefined]]_vars

\* A verified account's password has just been replaced through the reset
\* flow: the new password logs in, the other one does not.
C12_Witness ==
    /\ res.op = "reset-password"
    /\ res.status = 200
    /\ \E id \in FindByEmail(res.req.email) :
          /\ users[id].isVerified
          /\ users[id].resetPasswordOTP = Undefined
          /\ LoginResponse(res.req.email, res.req.newPassword).status = 200
          /\ \E old \in Passwords : LoginResponse(res.req.email, old).status = 401

(* C13: a reset code is single-use.  A reset-password step that answers 200
   leaves the account without a reset challenge; while the challenge is
   absent every reset-password and verify-otp step for the account answers
   'Invalid or expired OTP', whatever code it carries; and only a
   forgot-password step makes an absent challenge present again. *)
C13_ResetCodeSingleUse ==
    [][/\ (res'.op = "reset-password" /\ res'.status = 200)
          => \A id \in DOMAIN users' :
                users'[id].email = res'.req.email
                => users'[id].resetPasswordOTP = Undefined
       /\ \A id \in DOMAIN users :
             users[id].resetPasswordOTP = Undefined
             => /\ \A otp \in OTPs, newPassword \in Passwords :
                      (/\ res'.op = "reset-password"
                       /\ res'.req = [email |-> users[id].email, otp |-> otp,
                                      newPassword |-> newPassword]
                       /\ \E raw \in RawEmails, salt \in Salts :
                             ResetPassword(raw, otp, newPassword, salt))
                      => /\ res'.status = 400
                         /\ res'.message = "Invalid or expired OTP"
                         /\ users' = users
                /\ \A otp \in OTPs :
                      (/\ res'.op = "verify-otp"
                       /\ res'.req = [email |-> users[id].email, otp |-> otp]
                       /\ \E raw \in RawEmails : VerifyOTP(raw, otp))
                      => /\ res'.status = 400
                         /\ res'.message = "Invalid or expired OTP"
                /\ (id \in DOMAIN users' /\ users'[id].resetPasswordOTP # Undefined)
                   => /\ res'.op = "forgot-password"
                      /\ res'.req.email = users[id].email
                      /\ \E raw \in RawEmails, otp \in IssuedOTPs, salt \in Salts,
                            delivered \in BOOLEAN :
                            ForgotPassword(raw, otp, salt, delivered)]_vars

\* A reset-password carrying an issued code has just succeeded and consumed
\* the challenge: the same code is no longer accepted for the account.
C13_Witness ==
    /\ res.op = "reset-password"
    /\ res.status = 200
    /\ res.req.otp \in IssuedOTPs
    /\ \E id \in FindByEmail(res.req.email) :
          /\ users[id].resetPasswordOTP = Undefined
          /\ ~verifyResetOTP(users[id], res.req.otp)

\* The account has no reset challenge, or the code is not the one issued,
\* or the challenge is past its expiry.
ResetRefused(user, otp) ==
    \/ user.resetPasswordOTP = Undefined
    \/ ~Matches(otp, user.resetPasswordOTP)
    \/ now > user.resetPasswordExpire.at

(* C15: a reset-password step for an unknown email, for an account without
   a reset challenge, with a wrong code, or with a code past its expiry
   answers 400 'Invalid or expired OTP' with no payload, the same response
   in all four cases, and changes no field of any account (password and
   reset challenge included). *)
C15_RejectedResetChangesNothing ==
    [][\A email \in NormalizedEmails, otp \in OTPs, newPassword \in Passwords :
          (/\ res'.op = "reset-password"
           /\ res'.req = [email |-> email, otp |-> otp, newPassword |-> newPassword]
           /\ \/ FindByEmail(email) = {}
              \/ \E id \in FindByEmail(email) : ResetRefused(users[id], otp)
           /\ \E raw \in RawEmails, salt \in Salts :
                 ResetPassword(raw, otp, newPassword, salt))
          => /\ Visible(res') = [status |-> 400, message |-> "Invalid or expired OTP",
                                 data |-> Undefined]
             /\ users' = users]_vars

\* The issued code was refused by reset-password because the challenge had
\* expired; the challenge is still stored.
C15_Witness ==
    /\ res.op = "reset-password"
    /\ res.status = 400
    /\ \E id \in FindByEmail(res.req.email) :
          /\ Matches(res.req.otp, users[id].resetPasswordOTP)
          /\ now > users[id].resetPasswordExpire.at
          /\ ~Matches(res.req.newPassword, users[id].password)

\* The shape of a response payload: its field names, or none.
PayloadShape(data) == IF data = Undefined THEN {} ELSE DOMAIN data

(* C16: every forgot-password response is the same generic success response
   (status 200, the message 'If an account exists with this email, an OTP
   has been sent', no payload), whether or not the email matches an account
   and whether or not the mail was delivered. *)
C16_ForgotPasswordGenericResponse ==
    res.op = "forgot-password"
    => /\ res.status = 200
       /\ res.message = "If an account exists with this email, an OTP has been sent"
       /\ PayloadShape(res.data) = {}

\* A stored challenge field is absent or a bcrypt hash, never the code itself.
HashOrAbsent(field) == field = Undefined \/ field.alg = "bcrypt"

(* C17: the plaintext of an issued OTP reaches only the outbound email: the
   store holds only its hash, and no request prints it on the console or
   writes it to a file, a request whose mail delivery failed included. *)
C17_OTPPlaintextOnlyInEmail ==
    /\ \A id \in DOMAIN users :
          /\ HashOrAbsent(users[id].verificationOTP)
          /\ HashOrAbsent(users[id].resetPasswordOTP)
    /\ mail.kind \in {"verification", "reset"} => (~mail.otpLogged /\ ~mail.otpFile)

VerificationChallenge(user) ==
    [otpHash |-> user.verificationOTP, expiresAt |-> user.verificationOTPExpire]

ResetChallenge(user) ==
    [otpHash |-> user.resetPasswordOTP, expiresAt |-> user.resetPasswordExpire]

(* C18: the two challenge slots are independent.  A forgot-password,
   verify-otp or reset-password step changes no account's verification
   challenge; a signup or verify-email step changes no account's reset
   challenge, and the account a signup creates has its verification
   challenge set and no reset challenge. *)
C18_SlotsIndependent ==
    [][/\ \A id \in DOMAIN users \cap DOMAIN users' :
             /\ VerificationChallenge(users'[id]) # VerificationChallenge(users[id])
                => res'.op \in {"signup", "verify-email"}
             /\ ResetChallenge(users'[id]) # ResetChallenge(users[id])
                => res'.op \in {"forgot-password", "reset-password"}
       /\ \A id \in DOMAIN users' \ DOMAIN users :
             /\ res'.op = "signup"
             /\ users'[id].verificationOTP # Undefined
             /\ ResetChallenge(users'[id]) = [otpHash |-> Undefined, expiresAt |-> Undefined]]_vars

\* A verify-email has just succeeded on an account that holds a reset
\* challenge, and the challenge is still there.
C18_Witness ==
    /\ res.op = "verify-email"
    /\ res.status = 200
    /\ \E id \in FindByEmail(res.req.email) :
          /\ users[id].isVerified
          /\ users[id].verificationOTP = Undefined
          /\ users[id].resetPasswordOTP # Undefined

(* C19 as stated: in every reachable state an unverified account has no
   reset challenge. *)
C19_UnverifiedHasNoResetChallenge ==
    \A id \in DOMAIN users :
       ~users[id].isVerified => ResetChallenge(users[id]) =
                                   [otpHash |-> Undefined, expiresAt |-> Undefined]

(* C19, amended: forgot-password sets a full reset challenge (hash and
   expiry) on the account of its email whether or not the account is
   verified; a reset-password that answers 200 has replaced the password of
   the account, verified or not, and an unverified account whose password
   was replaced is still refused at login with 'Email not verified'. *)
C19_ResetFlowIgnoresVerification ==
    /\ res.op = "forgot-password"
       => \A id \in FindByEmail(res.req.email) :
             /\ users[id].resetPasswordOTP # Undefined
             /\ users[id].resetPasswordExpire # Undefined
    /\ (res.op = "reset-password" /\ res.status = 200)
       => \A id \in FindByEmail(res.req.email) :
             /\ Matches(res.req.newPassword, users[id].password)
             /\ ~users[id].isVerified
                => LoginResponse(res.req.email, res.req.newPassword).status = 403

\* A forgot-password has just set a reset challenge on an unverified account.
C19_Witness ==
    /\ res.op = "forgot-password"
    /\ \E id \in FindByEmail(res.req.email) :
          /\ ~users[id].isVerified
          /\ users[id].resetPasswordOTP # Undefined
          /\ users[id].resetPasswordExpire # Undefined

(* C14: of two overlapping reset-password requests for one account that
   carry the same valid code at most one succeeds.  A request that read the
   challenge, and whose challenge was then consumed by another request
   before its own write, neither answers 200 nor replaces the password: a
   reset-password write that succeeds finds the challenge still stored. *)
C14_AtMostOneResetSucceeds ==
    [][\A p \in Procs, salt \in Salts :
          (/\ inflight[p].pc = "reset:save"
           /\ ResetSave(p, salt)
           /\ inflight[p].id \in DOMAIN users
           /\ users[inflight[p].id].resetPasswordOTP = Undefined)
          => /\ res'.status = 400
             /\ res'.message = "Invalid or expired OTP"
             /\ users' = users]_vars

(* C20: the store never holds two accounts with the same normalized email,
   under any interleaving of the steps of signup requests, two signups for
   one address whose existence checks both run before either create
   included. *)
C20_OneAccountPerEmail ==
    \A id1 \in DOMAIN users, id2 \in DOMAIN users :
       users[id1].email = users[id2].email => id1 = id2

\* Two signups for one address both passed the existence check; the create
\* of the second was refused by the index, and the account of the first is
\* the only one stored for the address.
C20_Witness ==
    /\ res.op = "signup"
    /\ res.status = 500
    /\ res.message = "Error creating user"
    /\ res.data = [error |-> "E11000 duplicate key error"]
    /\ Cardinality(FindByEmail(res.req.email)) = 1

(* C21: a signup that creates no account because the normalized email is
   already taken answers 400 'User with this email already exists' and
   leaves every account unchanged, whether the existence check finds the
   account or, for two overlapping signups, the create of the loser is
   stopped by the unique index. *)
C21_DuplicateSignupAnswers400 ==
    [][\A p \in Procs :
          /\ \A raw \in ConcEmails, password \in Passwords :
                (/\ inflight[p] = Idle
                 /\ FindByEmail(NormalizeEmail(raw)) # {}
                 /\ SignupFindOne(p, raw, password))
                => /\ res'.status = 400
                   /\ res'.message = "User with this email already exists"
                   /\ users' = users
          /\ \A reqName \in Names, salt \in Salts :
                (/\ inflight[p].pc = "signup:create"
                 /\ DuplicateKey(inflight[p].req.email)
                 /\ SignupCreate(p, reqName, salt))
                => /\ res'.status = 400
                   /\ res'.message = "User with this email already exists"
                   /\ users' = users]_vars

(* C22: a delete answers 200 only when the account existed and was removed
   by that very step; a delete whose account is already gone when the
   removal runs (two deletes with one token that both passed the gate) does
   not report success. *)
C22_DeleteSucceedsOnlyIfRemoved ==
    [][\A p \in Procs :
          (/\ inflight[p].pc = "delete:remove"
           /\ inflight[p].id \notin DOMAIN users
           /\ DeleteRemove(p))
          => res'.status # 200]_vars

(* C23: after a delete of an account has answered 200, no task whose userId
   is the id of the deleted account is left in the store. *)
C23_DeleteRemovesTasks ==
    (res.op = "delete" /\ res.status = 200)
    => \A t \in DOMAIN tasks : tasks[t].userId # res.req.token.id

(* C24 as stated: the token the client was issued is accepted by protect in
   every state before its expiry, whatever happened to its account since. *)
C24_TokenAcceptedUntilExpiry ==
    (authToken # Undefined /\ now < authToken.exp) => Protect(authToken).ok

(* C24, amended: before its expiry the issued token is accepted, as its
   account, in every state in which the account is still stored (a
   reset-password of the account in between changes nothing); once the
   account has been deleted the token is rejected with 401 'User not found.
   Please login again.' *)
C24_TokenAcceptedWhileAccountExists ==
    (authToken # Undefined /\ now < authToken.exp)
    => IF authToken.id \in DOMAIN users
       THEN Protect(authToken) = [ok |-> TRUE, user |-> authToken.id]
       ELSE /\ ~Protect(authToken).ok
            /\ Protect(authToken).status = 401
            /\ Protect(authToken).message = "User not found. Please login again."

\* The password of the token's account has just been replaced by
\* reset-password, and the token issued before is still accepted.
C24_Witness ==
    /\ res.op = "reset-password"
    /\ res.status = 200
    /\ authToken # Undefined
    /\ authToken.id \in FindByEmail(res.req.email)
    /\ now < authToken.exp
    /\ Protect(authToken).ok

\* The token is a JWT whose signature was made with the server's key over
\* the payload it carries.
SignedByServer(token) ==
    /\ "malformed" \notin DOMAIN token
    /\ token.sig.key = JwtSecret
    /\ token.sig.id = token.id
    /\ token.sig.iat = token.iat
    /\ token.sig.exp = token.exp

(* C25: a request to a protected route (delete, create task) answers 401
   'Token expired. Please login again.' exactly when its token carries the
   server's signature and its expiry, issue time + JWT_EXPIRE, has passed,
   and 401 'Invalid token. Please login again.' when the token is malformed
   or its signature does not match its payload; the two responses differ,
   and after either the handler has not run (no account or task changed). *)
C25_TokenFailures ==
    [][(/\ res'.op \in {"delete", "create-task"}
        /\ now' = now
        /\ authToken # Undefined
        /\ res'.req.token = authToken
        /\ \/ DeleteAccount
           \/ \E progress \in TaskProgress, completed \in BOOLEAN :
                 CreateTask(progress, completed))
       => LET expired == "Token expired. Please login again."
              invalid == "Invalid token. Please login again."
          IN /\ (res'.message = expired)
                = (SignedByServer(authToken) /\ now >= authToken.exp)
             /\ (res'.message = invalid) = ~SignedByServer(authToken)
             /\ SignedByServer(authToken)
                => authToken.exp = authToken.iat + JWT_EXPIRE
             /\ res'.message \in {expired, invalid}
                => /\ res'.status = 401
                   /\ res'.data = Undefined
                   /\ users' = users
                   /\ tasks' = tasks]_vars

\* A request carried the token of one account edited to name another stored
\* account, under the old signature, and was refused as an invalid token.
C25_Witness ==
    /\ res.op \in {"delete", "create-task"}
    /\ res.status = 401
    /\ res.message = "Invalid token. Please login again."
    /\ "malformed" \notin DOMAIN res.req.token
    /\ res.req.token.sig.key = JwtSecret
    /\ res.req.token.sig.id # res.req.token.id
    /\ res.req.token.id \in DOMAIN users

(* C26: no response carries internal exception detail: a response to a
   request that hit an unexpected storage or hashing error has a generic
   message and no field holding the raw error message. *)
C26_NoInternalErrorDetail ==
    res.data # Undefined => "error" \notin DOMAIN res.data

(* C27: password verification fails closed.  When the comparison hits an
   internal error (bcrypt rejects its arguments), comparePassword returns
   false and the login answers 401 'Invalid email or password'; it does not
   raise. *)
C27_ComparePasswordFailsClosed ==
    (/\ res.op = "login"
     /\ FindByEmail(res.req.email) # {}
     /\ res.req.password.json # "string")
    => /\ \A id \in FindByEmail(res.req.email) :
             comparePassword(users[id], res.req.password) = "false"
       /\ res.status = 401
       /\ res.message = "Invalid email or password"

(* C28: the outcome of verify-email does not depend on the welcome mail.
   The step in which the welcome mail settles, delivered or not, changes
   neither the response already sent, nor the token, nor any account, and
   does not end the process; when the mail has failed the response is still
   the 200 with a token and the account is verified. *)
C28_WelcomeMailIsFireAndForget ==
    [][\A delivered \in BOOLEAN :
          (/\ mail.kind = "welcome"
           /\ mail.state = "pending"
           /\ WelcomeEmailSettles(delivered))
          => /\ res' = res
             /\ authToken' = authToken
             /\ users' = users
             /\ ~mail'.exit
             /\ res'.op = "verify-email"
             /\ res'.status = 200
             /\ IssuesToken(res')
             /\ \A id \in FindByEmail(mail.to) : users'[id].isVerified]_vars

\* The welcome mail of a successful verify-email has failed; the response,
\* the token and the verified account are as they were.
C28_Witness ==
    /\ mail.kind = "welcome"
    /\ mail.state = "failed"
    /\ ~mail.exit
    /\ res.op = "verify-email"
    /\ res.status = 200
    /\ authToken = res.data.token
    /\ \E id \in FindByEmail(mail.to) : users[id].isVerified

\* C29: in every stored account, and for each of the two challenge slots, the
\* hashed code and the expiry are both present or both absent, whatever the
\* interleaving of signup, verify-email, forgot-password and reset-password.
C29_ChallengeFieldsPaired ==
    \A id \in DOMAIN users :
        /\ (users[id].verificationOTP = Undefined)
              = (users[id].verificationOTPExpire = Undefined)
        /\ (users[id].resetPasswordOTP = Undefined)
              = (users[id].resetPasswordExpire = Undefined)

\* a reset has cleared the reset slot of an account while an overlapping
\* forgot-password request for the same account waits to write it again
C29_Witness ==
    /\ res.op = "reset-password"
    /\ res.status = 200
    /\ \E p \in Procs :
          /\ inflight[p] # Idle
          /\ inflight[p].pc = "forgot:save"
          /\ inflight[p].id \in DOMAIN users
          /\ users[inflight[p].id].resetPasswordOTP = Undefined
          /\ users[inflight[p].id].resetPasswordExpire = Undefined
          /\ users[inflight[p].id].verificationOTP # Undefined
          /\ users[inflight[p].id].verificationOTPExpire # Undefined

RECURSIVE DecimalValue(_)

\* value of a text of decimal digits
DecimalValue(s) ==
    IF Len(s) = 0 THEN 0
    ELSE 10 * DecimalValue(SubSeq(s, 1, Len(s) - 1))
            + (CHOOSE d \in 0..9 : DigitChar(d) = s[Len(s)])

\* C30: every code that signup or forgot-password issues is a text of four
\* decimal digits whose value lies in 1000..9999, so it passes the otp rules
\* of request validation, and the slot it is stored in expires exactly
\* OTP_TTL (ten minutes) after the moment of issue.
C30_IssuedOTPShapeAndExpiry ==
    [][ \A id \in DOMAIN users' :
          /\ ( /\ res'.op = "signup"
               /\ now' = now
               /\ mail'.kind = "verification"
               /\ mail'.to = users'[id].email )
             => /\ Len(mail'.otp) = 4
                /\ AllDigits(mail'.otp)
                /\ DecimalValue(mail'.otp) \in 1000..9999
                /\ OtpErrors(mail'.otp) = {}
                /\ users'[id].verificationOTP.of = mail'.otp
                /\ users'[id].verificationOTPExpire = At(now + OTP_TTL)
          /\ ( /\ res'.op = "forgot-password"
               /\ now' = now
               /\ mail'.kind = "reset"
               /\ mail'.to = users'[id].email )
             => /\ Len(mail'.otp) = 4
                /\ AllDigits(mail'.otp)
                /\ DecimalValue(mail'.otp) \in 1000..9999
                /\ OtpErrors(mail'.otp) = {}
                /\ users'[id].resetPasswordOTP.of = mail'.otp
                /\ users'[id].resetPasswordExpire = At(now + OTP_TTL)
      ]_vars

\* the largest value Math.random() can return has been drawn for the reset
\* code of an account whose verification code is still stored
C30_Witness ==
    /\ res.op = "forgot-password"
    /\ mail.kind = "reset"
    /\ mail.otp = MathRandomOTP(FloatUnit - 1)
    /\ \E id \in DOMAIN users :
          /\ users[id].resetPasswordOTP # Undefined
          /\ users[id].resetPasswordOTP.of = mail.otp
          /\ users[id].resetPasswordExpire = At(now + OTP_TTL)
          /\ users[id].verificationOTP # Undefined

\* the text of an email before its '@'
LocalPart(email) ==
    SubSeq(email, 1, (CHOOSE i \in 1..Len(email) : email[i] = "@"
                                                    /\ \A j \in 1..(i - 1) : email[j] # "@") - 1)

\* C31 as stated: an account created by a signup without a display name has
\* a name equal to the local part of its email, unchanged.
C31_DefaultNameIsLocalPart ==
    \A id \in DOMAIN users : users[id].name = LocalPart(users[id].email)

\* C31 as the code has it: an account created by a signup without a display
\* name has a name equal to the local part of its email in upper case.
C31_DefaultNameIsUpperCasedLocalPart ==
    \A id \in DOMAIN users :
        /\ Len(users[id].name) = Len(LocalPart(users[id].email))
        /\ \A i \in 1..Len(users[id].name) :
              users[id].name[i] = Upper(LocalPart(users[id].email)[i])

\* an account stored by a signup that sent no name, for an email whose local
\* part has a lower-case letter
C31_Witness ==
    /\ res.op = "signup"
    /\ res.status = 201
    /\ \E id \in DOMAIN users :
          /\ users[id].email = res.req.email
          /\ users[id].email = <<"a", "@", "x">>
          /\ users[id].name = <<"A">>

\* C32: a reset-password that answers 200 clears only a challenge that its
\* own code matches at the moment of the write; a challenge issued by a
\* forgot-password that completed after the request's read is left in place.
C32_ResetClearsOnlyTheChallengeItRead ==
    [][ \A id \in DOMAIN users :
          ( /\ res'.op = "reset-password"
            /\ res'.status = 200
            /\ id \in DOMAIN users'
            /\ users[id].resetPasswordOTP # Undefined
            /\ users'[id].resetPasswordOTP = Undefined )
          => BcryptCompare(res'.req.otp, users[id].resetPasswordOTP) = "true"
      ]_vars

\* C33: in every state of the store, every account that is not verified has
\* a verification challenge, also between the steps of a running signup.
C33_UnverifiedHasChallenge ==
    \A id \in DOMAIN users :
        ~users[id].isVerified
           => /\ users[id].verificationOTP # Undefined
              /\ users[id].verificationOTPExpire # Undefined

\* C34: an account holds one reset challenge.  The save of a forgot-password
\* replaces whatever challenge was stored: afterwards the expiry is the one
\* computed by that call and every other code is refused; a verify-otp or a
\* reset-password that starts with a code other than the stored one answers
\* 400 'Invalid or expired OTP'.
C34_SecondForgotOverwritesFirst ==
    [][ /\ \A p \in Procs :
              ( /\ inflight[p].pc = "forgot:save"
                /\ inflight'[p].pc = "forgot:send" )
              => /\ users'[inflight[p].id].resetPasswordExpire
                       = inflight[p].resetPasswordExpire
                 /\ BcryptCompare(inflight[p].otp,
                                  users'[inflight[p].id].resetPasswordOTP) = "true"
                 /\ \A otp \in OTPs \ {inflight[p].otp} :
                       ~verifyResetOTP(users'[inflight[p].id], otp)
        /\ \A id \in DOMAIN users, otp \in OTPs :
              ( /\ users[id].resetPasswordOTP # Undefined
                /\ BcryptCompare(otp, users[id].resetPasswordOTP) # "true" )
              => /\ ( /\ res'.op = "verify-otp"
                      /\ res' # res
                      /\ res'.req = [email |-> users[id].email, otp |-> otp] )
                    => /\ res'.status = 400
                       /\ res'.message = "Invalid or expired OTP"
                 /\ \A p \in Procs :
                       ( /\ inflight[p] = Idle
                         /\ inflight'[p] # Idle
                         /\ inflight'[p].pc = "reset:save" )
                       => ~( inflight'[p].req.otp = otp /\ inflight'[p].id = id )
      ]_vars

\* a first forgot-password has sent code 1000; a second one has then stored
\* its challenge for code 9999 over it
C34_Witness ==
    /\ mail.kind = "reset"
    /\ mail.otp = "1000"
    /\ res.op = "forgot-password"
    /\ res.status = 200
    /\ \E p \in Procs :
          /\ inflight[p] # Idle
          /\ inflight[p].pc = "forgot:send"
          /\ inflight[p].otp = "9999"
          /\ \E id \in FindByEmail(res.req.email) :
                /\ BcryptCompare("9999", users[id].resetPasswordOTP) = "true"
                /\ ~verifyResetOTP(users[id], "1000")

\* C35: a stored password is one application of the hash to the plaintext
\* last set by signup or by a successful reset-password.  No other step
\* changes it: the saves of signup's code, of verify-email and of
\* forgot-password leave it as it was, so the current password still
\* compares equal.
C35_PasswordHashedOnce ==
    [][ \A id \in DOMAIN users' :
          /\ (id \in DOMAIN users /\ users'[id].password # users[id].password)
             => /\ res'.op = "reset-password"
                /\ res'.status = 200
                /\ comparePassword(users'[id], res'.req.newPassword) = "true"
          /\ id \notin DOMAIN users
             => \E p \in Procs :
                   /\ inflight[p].pc = "signup:create"
                   /\ comparePassword(users'[id], inflight[p].req.password) = "true"
          /\ users'[id].password.of \in Passwords
      ]_vars

\* an account that went through signup's second save, verify-email and
\* forgot-password, and whose signup password still compares equal
C35_Witness ==
    \E id \in DOMAIN users :
        /\ users[id].isVerified
        /\ users[id].verificationOTP = Undefined
        /\ users[id].resetPasswordOTP # Undefined
        /\ res.op = "forgot-password"
        /\ res.status = 200
        /\ comparePassword(users[id], JsonString("pass123")) = "true"
        /\ comparePassword(users[id], JsonString("newpass1")) = "false"

\* C36: verify-otp changes no account.  After it answers 200 for a code the
\* reset challenge is still stored as it was, and a reset-password that
\* starts with a code matching a stored, unexpired challenge is not refused.
C36_VerifyOTPChangesNothing ==
    [][ /\ (res'.op = "verify-otp" /\ res' # res)
           => /\ users' = users
              /\ res'.status = 200
                 => \E id \in DOMAIN users' :
                       /\ users'[id].email = res'.req.email
                       /\ users'[id].resetPasswordOTP # Undefined
                       /\ users'[id].resetPasswordOTP = users[id].resetPasswordOTP
                       /\ users'[id].resetPasswordExpire = users[id].resetPasswordExpire
                       /\ ~ResetRefused(users'[id], res'.req.otp)
        /\ \A id \in DOMAIN users, otp \in OTPs :
              ( /\ ~ResetRefused(users[id], otp)
                /\ res' # res
                /\ res'.op = "reset-password"
                /\ res'.req.email = users[id].email
                /\ res'.req.otp = otp )
              => res'.status # 400
      ]_vars

\* verify-otp has just accepted a code, and the challenge it checked is
\* still stored and still accepts that code
C36_Witness ==
    /\ res.op = "verify-otp"
    /\ res.status = 200
    /\ \E id \in FindByEmail(res.req.email) :
          /\ users[id].resetPasswordOTP # Undefined
          /\ verifyResetOTP(users[id], res.req.otp)

\* the routes behind protect
ProtectedOps ==
    {"list-tasks", "get-task", "create-task", "update-task", "delete-task", "bulk-delete",
     "stats", "delete"}

\* a bearer token with the server's signature over its payload, not yet
\* expired, whose account is stored
ValidBearer(token) ==
    /\ token # Undefined
    /\ SignedByServer(token)
    /\ now < token.exp
    /\ token.id \in DOMAIN users

\* C37: a protected handler runs only for a request whose bearer token is
\* signed by the server, unexpired and names a stored account, and then it
\* acts as that account; any other request to a protected route answers 401
\* and changes neither an account nor a task.
C37_ProtectedRunsOnlyWithValidToken ==
    [][ /\ (tasks' # tasks \/ \E id \in DOMAIN users : id \notin DOMAIN users')
           => /\ res'.op \in ProtectedOps
              /\ ValidBearer(res'.req.token)
              /\ res'.status # 401
              /\ \A t \in DOMAIN tasks' :
                    (t \notin DOMAIN tasks \/ tasks'[t] # tasks[t])
                    => tasks'[t].userId = res'.req.token.id
              /\ \A t \in DOMAIN tasks :
                    (t \notin DOMAIN tasks' \/ tasks'[t] # tasks[t])
                    => tasks[t].userId = res'.req.token.id
              /\ \A id \in DOMAIN users : id \notin DOMAIN users' => id = res'.req.token.id
        /\ (res'.op \in ProtectedOps /\ res' # res)
           => IF ValidBearer(res'.req.token)
              THEN /\ res'.status # 401
                   /\ res'.op = "list-tasks" => res'.data.data = TasksOf(res'.req.token.id)
                   /\ res'.op = "stats" => res'.data = StatsSummary(res'.req.token.id)
                   /\ (res'.op = "get-task" /\ res'.status = 200)
                      => res'.data.task.userId = res'.req.token.id
              ELSE /\ res'.status = 401
                   /\ res'.data = Undefined
                   /\ users' = users
                   /\ tasks' = tasks
      ]_vars

\* a task route has just refused the expired token of an account that owns
\* a task, and another has run for an unexpired one
C37_Witness ==
    /\ res.op = "update-task"
    /\ res.status = 401
    /\ res.message = "Token expired. Please login again."
    /\ SignedByServer(res.req.token)
    /\ res.req.token.id \in DOMAIN users
    /\ \E t \in DOMAIN tasks : tasks[t].userId = res.req.token.id /\ ~tasks[t].completed

\* C38: every task request acts within the tasks of its authenticated
\* account U.  Tasks of other accounts are neither changed nor removed;
\* naming one answers 404 'Task not found' (bulk-delete leaves it out of
\* deletedCount); list, get and stats report tasks of U only; a created task
\* belongs to U; and no task ever changes its userId.
C38_TasksScopedToAccount ==
    [][ /\ \A t \in DOMAIN tasks :
              /\ t \in DOMAIN tasks' => tasks'[t].userId = tasks[t].userId
              /\ (t \notin DOMAIN tasks' \/ tasks'[t] # tasks[t])
                 => /\ res'.op \in {"update-task", "delete-task", "bulk-delete"}
                    /\ tasks[t].userId = res'.req.token.id
        /\ \A t \in DOMAIN tasks' \ DOMAIN tasks :
              /\ res'.op = "create-task"
              /\ tasks'[t].userId = res'.req.token.id
        /\ (res' # res /\ res'.op \in ProtectedOps /\ res'.status # 401)
           => LET U == res'.req.token.id
                  own == { t \in DOMAIN tasks : tasks[t].userId = U }
              IN /\ res'.op \in {"get-task", "update-task", "delete-task"}
                    => IF res'.req.id \in own
                       THEN res'.status = 200 /\ res'.data.id = res'.req.id
                       ELSE /\ res'.status = 404
                            /\ res'.message = "Task not found"
                            /\ tasks' = tasks
                 /\ res'.op = "list-tasks"
                    => res'.data.data = own /\ res'.data.count = Cardinality(own)
                 /\ res'.op = "stats"
                    => res'.data.totalTasks = Cardinality(own)
                 /\ (res'.op = "bulk-delete" /\ res'.status = 200)
                    => /\ res'.data.deletedCount = Cardinality(own \cap res'.req.taskIds)
                       /\ DOMAIN tasks' = DOMAIN tasks \ (own \cap res'.req.taskIds)
      ]_vars

\* an update has just named a task of another account and was answered
\* 'Task not found'
C38_Witness ==
    /\ res.op = "update-task"
    /\ res.status = 404
    /\ res.req.id \in DOMAIN tasks
    /\ tasks[res.req.id].userId # res.req.token.id
    /\ \E t \in DOMAIN tasks : tasks[t].userId = res.req.token.id

\* C39: every stored task that is completed has progress 100, after any
\* sequence of create and update requests that pass validation.
C39_CompletedHasFullProgress ==
    \A t \in DOMAIN tasks : tasks[t].completed => tasks[t].progress = 100

\* C40: the summary partitions the tasks of the authenticated account:
\* totalTasks = completedTasks + inProgressTasks + pendingTasks, and
\* completionPercentage is 100 * completedTasks / totalTasks rounded to the
\* nearest integer (a half going up), or 0 when there is no task.
C40_StatsPartitionAndPercentage ==
    res.op = "stats" /\ res.status = 200
    => /\ res.data.totalTasks
            = res.data.completedTasks + res.data.inProgressTasks + res.data.pendingTasks
       /\ res.data.completionPercentage
            = IF res.data.totalTasks = 0 THEN 0
              ELSE (200 * res.data.completedTasks + res.data.totalTasks)
                       \div (2 * res.data.totalTasks)
====
